---- MODULE Spec2Model ----
(***************************************************************************)
(* Model of the language client of PythonTools: the RPC client and its    *)
(* RequestManager (src/internal/lsp_client.py), the PyserverClient        *)
(* orchestrator (src/internal/pyserver.py) and the document registry      *)
(* (src/internal/workspace.py).                                            *)
(*                                                                         *)
(* Three state machines share the variables below:                         *)
(*   SpecRpc / SpecRpcSeq : feature requests, single-flight cancellation,  *)
(*                          the read loop's dispatch of server messages    *)
(*   SpecDocs / SpecDocsSeq : textdocument_didopen / didclose over the     *)
(*                          view-keyed document registry                   *)
(*   SpecLife             : server process, spawn event, initialize        *)
(*                          handshake, read-loop threads                   *)
(***************************************************************************)
EXTENDS Integers, Sequences, FiniteSets, TLC

\* ---------------------------------------------------------------- bounds
MaxRequests == 2
MaxServerMsgs == 2
MaxDocCalls == 3
MaxSpawns == 2
MaxOpens == 1
MaxEntries == 2
MaxLen == 2
MaxChanges == 2
MaxHovers == 2
MaxHeaderLines == 2
MaxBody == 2
MaxItems == 2
MaxRuns == 3
MaxInstalls == 2
MaxCompletions == 3

\* Python's None for ids and processes
None == 0
\* Python's None where a document is expected
NoDocument == ""

\* threads that call feature methods (one per on_hover task, the async
\* event thread, ...)
Threads == {"t1", "t2"}

Methods == {"textDocument/hover", "textDocument/completion"}
\* a method for which handler_map has no entry
UnknownMethod == "unknown/method"
\* server-issued requests and notifications the handler_map knows
ServerMethods == {"workspace/applyEdit"}
Docs == {"d1", "d2"}
\* each calling thread acts for one view, hence one registered document
DocOf == [t \in Threads |-> IF t = "t1" THEN "d1" ELSE "d2"]

Views == {"v1", "v2"}
Paths == {"p1", "p2"}

VARIABLES
    \* RequestManager (lsp_client.py:260-265)
    methods_map, canceled_requests, request_count,
    \* frames in the stdin pipe of the running server process, in order,
    \* each with the process that received it
    wire,
    \* Session.action_target (pyserver.py:392)
    action_target,
    \* feature threads: program counter and locals
    pc, loc,
    \* read loop (lsp_client.py:343-373): position, message in hand,
    \* number of messages taken from the server
    loop_pc, loop_msg, srv_count,
    \* history of the current RequestManager: every request added
    \* (id -> method, document), every id cancelled, every handler
    \* invocation for a Response; and every server Request processed
    issued, canceled_ever, handled, served,
    \* the editor: view.file_name() of every view
    file_name,
    \* Session document registry: view -> file_name of its Document
    documents,
    \* document synchronisation threads: program counter, locals, number
    \* of calls made
    dpc, dloc, doc_calls,
    \* StandardIO: the running process behind _process (None or the number
    \* of the spawn) and _run_proces_event
    process, run_event,
    \* number of processes spawned so far, the read-loop threads started
    \* by listen() that have not ended, and the Requests the running
    \* server has answered
    spawned, listeners, answered,
    \* InitializeManager (pyserver.py:95-98)
    is_initializing, is_initialized, initialize_event,
    \* PyserverClient._run_server_lock: the thread holding it, or "";
    \* history: the reset / run / listen steps start_server has taken
    run_server_lock, start_log,
    \* history: every id RequestManager.add has returned to this Client
    ids_issued,
    \* DiagnosticManager (pyserver.py:671-679): diagnostics per view (the
    \* positions they cover), _active_view, _active_view_diagnostics; and
    \* the popup shown last
    diagnostics, active_view, active_view_diagnostics, popup,
    \* a call whose steps are followed one by one: its arguments, its
    \* locals and its outcome
    call, frame, ret

rmVars == <<methods_map, canceled_requests, request_count>>
featVars == <<action_target, pc, loc, loop_pc, loop_msg, srv_count,
              issued, canceled_ever, handled, served>>
docVars == <<file_name, documents, dpc, dloc, doc_calls>>
ioVars == <<process, run_event, spawned, listeners, answered>>
imVars == <<is_initializing, is_initialized, initialize_event>>
lockVars == <<run_server_lock, start_log>>
diagVars == <<diagnostics, active_view, active_view_diagnostics, popup>>
fnVars == <<call, frame, ret>>

vars == <<rmVars, wire, featVars, docVars, ioVars, imVars,
          lockVars, ids_issued, diagVars, fnVars>>

\* ------------------------------------------------------------ RPCMessage
Request(id, method) ==
    [kind |-> "request", id |-> id, method |-> method, payload |-> "params"]

Notification(method, id) ==
    [kind |-> "notification", id |-> id, method |-> method, payload |-> "params"]

\* RPCMessage.response: the error wins when it is truthy
Response(id, result, error) ==
    IF error # None
    THEN [kind |-> "response", id |-> id, method |-> "", payload |-> "error"]
    ELSE [kind |-> "response", id |-> id, method |-> "", payload |-> "result"]

\* a document notification carries the file path of its document
DocNotification(method, path) ==
    [kind |-> "notification", id |-> None, method |-> method, payload |-> path]

\* ------------------------------------------------------------ StandardIO
Frame(p, m) == [proc |-> p, kind |-> m.kind, id |-> m.id,
                method |-> m.method, payload |-> m.payload]

\* StandardIO.write once the spawn event is set: the frame goes to the
\* stdin of the current process; it is lost in a throw-away BytesIO when
\* _process is None, and to a broken pipe when the process has exited
write(w, p, m) == IF p = None THEN w ELSE Append(w, Frame(p, m))

\* --------------------------------------------------------- RequestManager
\* dict.pop(key) / del dict[key]
DictRemove(d, k) == [i \in (DOMAIN d) \ {k} |-> d[i]]
DictSet(d, k, v) == [i \in (DOMAIN d) \cup {k} |-> IF i = k THEN v ELSE d[i]]

\* variant: the scan never matches
_get_previous_request_nomatch(mm, method) == None

\* first id, in insertion order, whose method matches
_get_previous_request(mm, method) ==
    LET match == {i \in DOMAIN mm : mm[i] = method}
    IN  IF match = {} THEN None
        ELSE CHOOSE i \in match : \A j \in match : i <= j

\* RequestManager.add under the lock
add(rc, mm, method) ==
    [request_count |-> rc + 1,
     methods_map   |-> DictSet(mm, rc + 1, method),
     id            |-> rc + 1]

\* variant: the cancelled id stays in the pending table
cancel_keep(mm, cr, method) ==
    LET request_id == _get_previous_request(mm, method)
    IN  IF request_id = None
        THEN [request_id |-> None, methods_map |-> mm, canceled_requests |-> cr]
        ELSE [request_id |-> request_id,
              methods_map |-> mm,
              canceled_requests |-> cr \cup {request_id}]

\* RequestManager.cancel under the lock
cancel(mm, cr, method) ==
    LET request_id == _get_previous_request(mm, method)
    IN  IF request_id = None
        THEN [request_id |-> None, methods_map |-> mm, canceled_requests |-> cr]
        ELSE [request_id |-> request_id,
              methods_map |-> DictRemove(mm, request_id),
              canceled_requests |-> cr \cup {request_id}]

\* variant: the method is looked up without being removed
pop_keep(mm, cr, request_id) ==
    IF request_id \in cr
    THEN [raised |-> "Canceled", method |-> "",
          methods_map |-> mm, canceled_requests |-> cr \ {request_id}]
    ELSE IF request_id \in DOMAIN mm
    THEN [raised |-> "", method |-> mm[request_id],
          methods_map |-> mm, canceled_requests |-> cr]
    ELSE [raised |-> "KeyError", method |-> "",
          methods_map |-> mm, canceled_requests |-> cr]

\* RequestManager.pop under the lock: raises Canceled, raises KeyError or
\* returns the method
pop(mm, cr, request_id) ==
    IF request_id \in cr
    THEN [raised |-> "Canceled", method |-> "",
          methods_map |-> mm, canceled_requests |-> cr \ {request_id}]
    ELSE IF request_id \in DOMAIN mm
    THEN [raised |-> "", method |-> mm[request_id],
          methods_map |-> DictRemove(mm, request_id), canceled_requests |-> cr]
    ELSE [raised |-> "KeyError", method |-> "",
          methods_map |-> mm, canceled_requests |-> cr]

\* ------------------------------------------------------- handler dispatch
handler_map == Methods \cup ServerMethods \cup {"initialize"}
\* the server numbers its own Requests; its n-th message gets id 100 + n
ServerId(n) == 100 + n

\* errors.transform_error: any exception becomes a {code, message} object,
\* kept here as its code; unrecognized exceptions are Internal Error
transform_error(err) == IF err = "MethodNotFound" THEN -32601 ELSE -32603

\* variant: a method without entry is ignored instead of raising
handle_ignore_unknown(method, outcome) ==
    IF method \in handler_map /\ outcome = "raise"
    THEN [raised |-> "Exception", result |-> None]
    ELSE [raised |-> "", result |-> 1]

\* PyserverClient.handle: MethodNotFound when the method has no entry,
\* otherwise whatever the registered function does (outcome)
handle(method, outcome) ==
    IF method \notin handler_map
    THEN [raised |-> "MethodNotFound", result |-> None]
    ELSE IF outcome = "raise"
    THEN [raised |-> "Exception", result |-> None]
    ELSE [raised |-> "", result |-> 1]

\* Client._handle_request: the Response that is sent
_handle_request(id, method, outcome) ==
    LET h == handle(method, outcome)
        error == IF h.raised # "" THEN transform_error(h.raised) ELSE None
    IN  Response(id, h.result, error)

\* ----------------------------------------------------- DiagnosticManager
\* the manager's fields as one value
DiagnosticState(dg, av, avd) ==
    [diagnostics |-> dg, active_view |-> av, active_view_diagnostics |-> avd]

ThisDiagnosticState ==
    DiagnosticState(diagnostics, active_view, active_view_diagnostics)

\* _on_diagnostic_changed(view): the items of the active view are
\* rebuilt when the changed view is the active one
_on_diagnostic_changed(dm, view) ==
    IF view # dm.active_view THEN dm
    ELSE [dm EXCEPT !.active_view_diagnostics =
              IF view \in DOMAIN dm.diagnostics
              THEN dm.diagnostics[view] ELSE {}]

\* DiagnosticManager.set(view, diagnostics)
set(dm, view, items) ==
    _on_diagnostic_changed(
        [dm EXCEPT !.diagnostics =
             [w \in (DOMAIN dm.diagnostics) \cup {view} |->
                  IF w = view THEN items ELSE dm.diagnostics[w]]], view)

\* DiagnosticManager.remove(view)
remove(dm, view) ==
    _on_diagnostic_changed(
        [dm EXCEPT !.diagnostics =
             [w \in (DOMAIN dm.diagnostics) \ {view} |-> dm.diagnostics[w]]],
        view)

\* DiagnosticManager.set_active_view(view)
set_active_view(dm, view) ==
    IF view = dm.active_view THEN dm
    ELSE _on_diagnostic_changed([dm EXCEPT !.active_view = view], view)

\* DiagnosticManager.reset
NoDiagnostics == DiagnosticState(<<>>, "", {})

\* the manager's fields take the values of dm
DiagnosticsBecome(dm) ==
    /\ diagnostics' = dm.diagnostics
    /\ active_view' = dm.active_view
    /\ active_view_diagnostics' = dm.active_view_diagnostics

\* ----------------------------------------------------- document registry
NoDocLoc == [view |-> "", reload |-> FALSE, file_name |-> "",
             close_file_name |-> "", document |-> "", nested |-> FALSE]

\* Session.get_documents(file_name): the views whose Document has that path
get_documents(docs, path) == {w \in DOMAIN docs : docs[w] = path}

\* the orders in which a dict with these keys may have been filled
InsertionOrders(keys) ==
    {o \in [1..Cardinality(keys) -> keys] : \A k \in keys : \E i \in DOMAIN o : o[i] = k}

\* Workspace.get_document_by_name(file_name): the document of the first
\* view, in the dict's order, whose view.file_name() is the name; the
\* default when there is none. A document is named by its view.
get_document_by_name(order, names, path) ==
    LET hits == {i \in DOMAIN order : names[order[i]] = path}
    IN  IF hits = {} THEN NoDocument
        ELSE order[CHOOSE i \in hits : \A j \in hits : i <= j]

\* return from textdocument_didclose: to the caller inside
\* textdocument_didopen, or out of the call
DidCloseReturn(t) ==
    IF dloc[t].nested
    THEN /\ dpc' = [dpc EXCEPT ![t] = "open_add"]
         /\ dloc' = [dloc EXCEPT ![t].nested = FALSE]
    ELSE /\ dpc' = [dpc EXCEPT ![t] = "idle"]
         /\ dloc' = [dloc EXCEPT ![t] = NoDocLoc]

\* textdocument_didopen(view, reload) once wait_initialized lets it pass:
\* file_name = view.file_name()
DidOpenCall(t, v, reload) ==
    /\ dpc[t] = "idle"
    /\ pc[t] = "idle"
    /\ doc_calls < MaxDocCalls
    /\ initialize_event
    /\ doc_calls' = doc_calls + 1
    /\ dloc' = [dloc EXCEPT ![t] = [NoDocLoc EXCEPT !.view = v,
                    !.reload = reload, !.file_name = file_name[v]]]
    /\ dpc' = [dpc EXCEPT ![t] = "open_get"]
    /\ UNCHANGED <<rmVars, wire, featVars, file_name, documents,
                   ioVars, imVars>>
    /\ DiagnosticsBecome(set_active_view(ThisDiagnosticState, v))
    /\ UNCHANGED <<lockVars, ids_issued, popup, fnVars>>

\* variant: an unchanged document is opened again
DidOpenGetReopen(t) ==
    /\ dpc[t] = "open_get"
    /\ LET v == dloc[t].view
       IN  IF v \notin DOMAIN documents
           THEN /\ dpc' = [dpc EXCEPT ![t] = "open_add"]
                /\ UNCHANGED <<dloc, diagnostics, active_view,
                               active_view_diagnostics>>
           ELSE IF documents[v] = dloc[t].file_name /\ ~dloc[t].reload
           THEN /\ dpc' = [dpc EXCEPT ![t] = "open_add"]
                /\ UNCHANGED <<dloc, diagnostics, active_view,
                               active_view_diagnostics>>
           ELSE IF ~is_initialized
           THEN /\ dpc' = [dpc EXCEPT ![t] = "open_add"]
                /\ UNCHANGED <<dloc, diagnostics, active_view,
                               active_view_diagnostics>>
           ELSE /\ dpc' = [dpc EXCEPT ![t] = "close_get"]
                /\ dloc' = [dloc EXCEPT ![t].nested = TRUE,
                                ![t].close_file_name = file_name[v]]
                /\ DiagnosticsBecome(remove(ThisDiagnosticState, v))
    /\ UNCHANGED <<rmVars, wire, featVars, file_name, documents, doc_calls,
                   ioVars, imVars>>
    /\ UNCHANGED <<lockVars, ids_issued, popup, fnVars>>

\* textdocument_didopen: get_document(view); an unchanged document is
\* kept, a renamed or reloaded one goes through textdocument_didclose,
\* which must_initialized skips when the session is not initialized
DidOpenGet(t) ==
    /\ dpc[t] = "open_get"
    /\ LET v == dloc[t].view
       IN  IF v \notin DOMAIN documents
           THEN /\ dpc' = [dpc EXCEPT ![t] = "open_add"]
                /\ UNCHANGED <<dloc, diagnostics, active_view,
                               active_view_diagnostics>>
           ELSE IF documents[v] = dloc[t].file_name /\ ~dloc[t].reload
           THEN /\ dpc' = [dpc EXCEPT ![t] = "idle"]
                /\ dloc' = [dloc EXCEPT ![t] = NoDocLoc]
                /\ UNCHANGED <<diagnostics, active_view,
                               active_view_diagnostics>>
           ELSE IF ~is_initialized
           THEN /\ dpc' = [dpc EXCEPT ![t] = "open_add"]
                /\ UNCHANGED <<dloc, diagnostics, active_view,
                               active_view_diagnostics>>
           ELSE /\ dpc' = [dpc EXCEPT ![t] = "close_get"]
                /\ dloc' = [dloc EXCEPT ![t].nested = TRUE,
                                ![t].close_file_name = file_name[v]]
                /\ DiagnosticsBecome(remove(ThisDiagnosticState, v))
    /\ UNCHANGED <<rmVars, wire, featVars, file_name, documents, doc_calls,
                   ioVars, imVars>>
    /\ UNCHANGED <<lockVars, ids_issued, popup, fnVars>>

\* textdocument_didclose(view) called by the editor: must_initialized,
\* then file_name = view.file_name()
DidCloseCall(t, v) ==
    /\ dpc[t] = "idle"
    /\ pc[t] = "idle"
    /\ doc_calls < MaxDocCalls
    /\ doc_calls' = doc_calls + 1
    /\ IF is_initialized
       THEN /\ dloc' = [dloc EXCEPT ![t] = [NoDocLoc EXCEPT !.view = v,
                            !.close_file_name = file_name[v]]]
            /\ dpc' = [dpc EXCEPT ![t] = "close_get"]
            /\ DiagnosticsBecome(remove(ThisDiagnosticState, v))
       ELSE UNCHANGED <<dpc, dloc, diagnostics, active_view,
                        active_view_diagnostics>>
    /\ UNCHANGED <<rmVars, wire, featVars, file_name, documents,
                   ioVars, imVars>>
    /\ UNCHANGED <<lockVars, ids_issued, popup, fnVars>>

\* textdocument_didclose: document := get_document(view)
DidCloseGet(t) ==
    /\ dpc[t] = "close_get"
    /\ IF dloc[t].view \in DOMAIN documents
       THEN /\ dpc' = [dpc EXCEPT ![t] = "close_remove"]
            /\ dloc' = [dloc EXCEPT ![t].document = documents[dloc[t].view]]
       ELSE DidCloseReturn(t)
    /\ UNCHANGED <<rmVars, wire, featVars, file_name, documents, doc_calls,
                   ioVars, imVars>>
    /\ UNCHANGED <<lockVars, ids_issued, diagVars, fnVars>>

\* textdocument_didclose: remove_document(view)
DidCloseRemove(t) ==
    /\ dpc[t] = "close_remove"
    /\ documents' = DictRemove(documents, dloc[t].view)
    /\ dpc' = [dpc EXCEPT ![t] = "close_check"]
    /\ UNCHANGED <<rmVars, wire, featVars, file_name, dloc, doc_calls,
                   ioVars, imVars>>
    /\ UNCHANGED <<lockVars, ids_issued, diagVars, fnVars>>

\* textdocument_didclose: return if get_documents(file_name) is not empty
DidCloseCheck(t) ==
    /\ dpc[t] = "close_check"
    /\ IF get_documents(documents, dloc[t].close_file_name) # {}
       THEN DidCloseReturn(t)
       ELSE /\ dpc' = [dpc EXCEPT ![t] = "close_send"]
            /\ UNCHANGED dloc
    /\ UNCHANGED <<rmVars, wire, featVars, file_name, documents, doc_calls,
                   ioVars, imVars>>
    /\ UNCHANGED <<lockVars, ids_issued, diagVars, fnVars>>

\* textdocument_didclose: didClose for document.file_name
DidCloseSend(t) ==
    /\ dpc[t] = "close_send"
    /\ run_event
    /\ wire' = write(wire, process,
           DocNotification("textDocument/didClose", dloc[t].document))
    /\ DidCloseReturn(t)
    /\ UNCHANGED <<rmVars, featVars, file_name, documents, doc_calls,
                   ioVars, imVars>>
    /\ UNCHANGED <<lockVars, ids_issued, diagVars, fnVars>>

\* textdocument_didopen: document = BufferedDocument(view), whose
\* file_name is view.file_name() now; add_document(document)
DidOpenAdd(t) ==
    /\ dpc[t] = "open_add"
    /\ documents' = DictSet(documents, dloc[t].view, file_name[dloc[t].view])
    /\ dloc' = [dloc EXCEPT ![t].document = file_name[dloc[t].view]]
    /\ dpc' = [dpc EXCEPT ![t] = "open_check"]
    /\ UNCHANGED <<rmVars, wire, featVars, file_name, doc_calls,
                   ioVars, imVars>>
    /\ UNCHANGED <<lockVars, ids_issued, diagVars, fnVars>>

\* textdocument_didopen: len(get_documents(file_name)) == 1
DidOpenCheck(t) ==
    /\ dpc[t] = "open_check"
    /\ IF Cardinality(get_documents(documents, dloc[t].file_name)) = 1
       THEN /\ dpc' = [dpc EXCEPT ![t] = "open_send"]
            /\ UNCHANGED dloc
       ELSE /\ dpc' = [dpc EXCEPT ![t] = "idle"]
            /\ dloc' = [dloc EXCEPT ![t] = NoDocLoc]
    /\ UNCHANGED <<rmVars, wire, featVars, file_name, documents, doc_calls,
                   ioVars, imVars>>
    /\ UNCHANGED <<lockVars, ids_issued, diagVars, fnVars>>

\* textdocument_didopen: didOpen for document.file_name
DidOpenSend(t) ==
    /\ dpc[t] = "open_send"
    /\ run_event
    /\ wire' = write(wire, process,
           DocNotification("textDocument/didOpen", dloc[t].document))
    /\ dpc' = [dpc EXCEPT ![t] = "idle"]
    /\ dloc' = [dloc EXCEPT ![t] = NoDocLoc]
    /\ UNCHANGED <<rmVars, featVars, file_name, documents, doc_calls,
                   ioVars, imVars>>
    /\ UNCHANGED <<lockVars, ids_issued, diagVars, fnVars>>

\* the editor renames the file of a view: the view stays, file_name()
\* changes; no document call is in progress
Retarget(v, p) ==
    /\ \A t \in Threads : dpc[t] = "idle"
    /\ file_name[v] # p
    /\ file_name' = [file_name EXCEPT ![v] = p]
    /\ UNCHANGED <<rmVars, wire, featVars, documents, dpc, dloc, doc_calls,
                   ioVars, imVars>>
    /\ UNCHANGED <<lockVars, ids_issued, diagVars, fnVars>>

\* ------------------------------------------------- feature request threads
\* threads inside send_request that have not yet taken their id
InFlight == Cardinality({u \in Threads : pc[u] \in {"cancel", "notify", "add"}})

NoLoc == [method |-> "", doc |-> NoDocument, prev |-> None, req_id |-> None,
          mark |-> 0, pend |-> {}]

\* textdocument_completion / textdocument_hover for a registered document,
\* past the must_initialized guard: the action target is written, then
\* send_request is entered
FeatureCall(t, m, d) ==
    /\ pc[t] = "idle"
    /\ dpc[t] = "idle"
    /\ is_initialized
    /\ request_count + InFlight < 1 + MaxRequests
    /\ action_target' = [action_target EXCEPT ![m] = d]
    /\ loc' = [loc EXCEPT ![t] = [NoLoc EXCEPT !.method = m, !.doc = d,
                                                !.mark = Len(wire)]]
    /\ pc' = [pc EXCEPT ![t] = "cancel"]
    /\ UNCHANGED <<rmVars, wire, loop_pc, loop_msg, srv_count,
                   issued, canceled_ever, handled, served>>
    /\ UNCHANGED <<docVars, ioVars, imVars>>
    /\ UNCHANGED <<lockVars, ids_issued, diagVars, fnVars>>

\* send_request, first statement: RequestManager.cancel(method)
SendRequestCancel(t) ==
    /\ pc[t] = "cancel"
    /\ LET r == cancel(methods_map, canceled_requests, loc[t].method)
       IN  /\ methods_map' = r.methods_map
           /\ canceled_requests' = r.canceled_requests
           /\ canceled_ever' = canceled_ever \cup
                  (DOMAIN methods_map \ DOMAIN r.methods_map)
           /\ loc' = [loc EXCEPT
                  ![t].prev = r.request_id,
                  ![t].pend = {i \in DOMAIN methods_map :
                                   methods_map[i] = loc[t].method}]
           /\ pc' = [pc EXCEPT ![t] =
                  IF r.request_id # None THEN "notify" ELSE "add"]
    /\ UNCHANGED <<request_count, wire, action_target,
                   loop_pc, loop_msg, srv_count, issued, handled, served>>
    /\ UNCHANGED <<docVars, ioVars, imVars>>
    /\ UNCHANGED <<lockVars, ids_issued, diagVars, fnVars>>

\* send_request: send_notification("$/cancelRequest", {"id": prev_request})
SendCancelNotification(t) ==
    /\ pc[t] = "notify"
    /\ run_event
    /\ wire' = write(wire, process,
                     Notification("$/cancelRequest", loc[t].prev))
    /\ pc' = [pc EXCEPT ![t] = "add"]
    /\ UNCHANGED <<rmVars, action_target, loc, loop_pc, loop_msg, srv_count,
                   issued, canceled_ever, handled, served>>
    /\ UNCHANGED <<docVars, ioVars, imVars>>
    /\ UNCHANGED <<lockVars, ids_issued, diagVars, fnVars>>

\* send_request: req_id = RequestManager.add(method)
SendRequestAdd(t) ==
    /\ pc[t] = "add"
    /\ LET r == add(request_count, methods_map, loc[t].method)
       IN  /\ request_count' = r.request_count
           /\ methods_map' = r.methods_map
           /\ loc' = [loc EXCEPT ![t].req_id = r.id]
           /\ ids_issued' = Append(ids_issued, r.id)
           /\ issued' = DictSet(issued, r.id,
                  [method |-> loc[t].method, doc |-> loc[t].doc])
    /\ pc' = [pc EXCEPT ![t] = "write"]
    /\ UNCHANGED <<canceled_requests, wire, action_target,
                   loop_pc, loop_msg, srv_count,
                   canceled_ever, handled, served>>
    /\ UNCHANGED <<docVars, ioVars, imVars>>
    /\ UNCHANGED <<lockVars, diagVars, fnVars>>

\* send_request: send_message(RPCMessage.request(req_id, method, params))
SendRequestWrite(t) ==
    /\ pc[t] = "write"
    /\ run_event
    /\ wire' = write(wire, process, Request(loc[t].req_id, loc[t].method))
    /\ pc' = [pc EXCEPT ![t] = "done"]
    /\ UNCHANGED <<rmVars, action_target, loc, loop_pc, loop_msg, srv_count,
                   issued, canceled_ever, handled, served>>
    /\ UNCHANGED <<docVars, ioVars, imVars>>
    /\ UNCHANGED <<lockVars, ids_issued, diagVars, fnVars>>

\* the feature method returns to its caller
FeatureReturn(t) ==
    /\ pc[t] = "done"
    /\ loc[t].method \in Methods
    /\ pc' = [pc EXCEPT ![t] = "idle"]
    /\ loc' = [loc EXCEPT ![t] = NoLoc]
    /\ UNCHANGED <<rmVars, wire, action_target, loop_pc, loop_msg, srv_count,
                   issued, canceled_ever, handled, served>>
    /\ UNCHANGED <<docVars, ioVars, imVars>>
    /\ UNCHANGED <<lockVars, ids_issued, diagVars, fnVars>>

\* ------------------------------------------------------------- read loop
NoMsg == [id |-> None, method |-> "", outcome |-> ""]

\* handle_message -> _handle_response: RequestManager.pop(message["id"]);
\* Canceled is ignored, KeyError propagates to _listen_task and is logged
LoopResponse(id, outcome) ==
    /\ loop_pc = "read"
    /\ srv_count < MaxServerMsgs
    /\ srv_count' = srv_count + 1
    /\ LET r == pop(methods_map, canceled_requests, id)
       IN  /\ methods_map' = r.methods_map
           /\ canceled_requests' = r.canceled_requests
           /\ IF r.raised = ""
              THEN /\ loop_pc' = "handle"
                   /\ loop_msg' = [id |-> id, method |-> r.method,
                                   outcome |-> outcome]
              ELSE UNCHANGED <<loop_pc, loop_msg>>
    /\ UNCHANGED <<request_count, wire, action_target, pc, loc,
                   issued, canceled_ever, handled, served>>
    /\ UNCHANGED <<docVars, ioVars, imVars>>
    /\ UNCHANGED <<lockVars, ids_issued, diagVars, fnVars>>

\* _handle_response: handler.handle(method, message); the feature handler
\* reads action_target[method] when the Response carries a result
LoopHandleResponse ==
    /\ loop_pc = "handle"
    /\ handled' = Append(handled,
           [id |-> loop_msg.id, method |-> loop_msg.method])
    /\ loop_pc' = "read"
    /\ loop_msg' = NoMsg
    /\ UNCHANGED <<rmVars, wire, action_target, pc, loc, srv_count,
                   issued, canceled_ever, served>>
    /\ UNCHANGED <<docVars, ioVars, imVars>>
    /\ UNCHANGED <<lockVars, ids_issued, diagVars, fnVars>>

\* handle_message -> _handle_request: run the handler, always send_response
LoopRequest(id, method, outcome) ==
    /\ loop_pc = "read"
    /\ srv_count < MaxServerMsgs
    /\ run_event
    /\ srv_count' = srv_count + 1
    /\ wire' = write(wire, process, _handle_request(id, method, outcome))
    /\ served' = Append(served, [id |-> id, method |-> method,
                                 outcome |-> outcome])
    /\ UNCHANGED <<rmVars, action_target, pc, loc, loop_pc, loop_msg,
                   issued, canceled_ever, handled>>
    /\ UNCHANGED <<docVars, ioVars, imVars>>
    /\ UNCHANGED <<lockVars, ids_issued, diagVars, fnVars>>

\* handle_message -> _handle_notification: handler errors are logged
LoopNotification(method, outcome) ==
    /\ loop_pc = "read"
    /\ srv_count < MaxServerMsgs
    /\ srv_count' = srv_count + 1
    /\ handle(method, outcome).raised \in {"", "MethodNotFound", "Exception"}
    /\ UNCHANGED <<rmVars, wire, action_target, pc, loc, loop_pc, loop_msg,
                   issued, canceled_ever, handled, served>>
    /\ UNCHANGED <<docVars, ioVars, imVars>>
    /\ UNCHANGED <<lockVars, ids_issued, diagVars, fnVars>>

\* ----------------------------------------------------------------- hover
\* text points of a view, and the diagnostics a server may publish: each
\* item has a message and the region (first, last point) it marks
Points == {0, 1}
DiagnosticItems ==
    {[message |-> "m0", region |-> <<0, 0>>],
     [message |-> "m1", region |-> <<1, 1>>]}

\* the BufferedDocument registered for a view
DocumentOf == [v \in Views |-> IF v = "v1" THEN "d1" ELSE "d2"]

\* sublime.Region.contains(point)
contains(region, point) == region[1] <= point /\ point <= region[2]

\* handle_textdocument_publishdiagnostics: DiagnosticManager.set for
\* every view registered with the file
RECURSIVE SetEach(_, _, _)
SetEach(dm, views, items) ==
    IF views = {} THEN dm
    ELSE LET v == CHOOSE w \in views : TRUE
         IN  SetEach(set(dm, v, items), views \ {v}, items)

PublishDiagnostics(path, items) ==
    /\ loop_pc = "read"
    /\ DiagnosticsBecome(SetEach(ThisDiagnosticState,
                                 get_documents(documents, path), items))
    /\ UNCHANGED <<rmVars, wire, featVars, docVars, ioVars, imVars>>
    /\ UNCHANGED <<lockVars, ids_issued, popup, fnVars>>

\* _get_diagnostic_message: the messages of the active view's items that
\* contain the point; empty when there is none
_get_diagnostic_message(avd, point) ==
    {d.message : d \in {i \in avd : contains(i.region, point)}}

\* textdocument_hover(view, row, col), past the must_initialized guard:
\* the popup of the previous target is hidden; for a registered document
\* a diagnostic message is shown and the call returns, otherwise the
\* action target is written and send_request is entered
textdocument_hover(t, view, point) ==
    LET method == "textDocument/hover"
        other == action_target[method]
        hidden == IF other # NoDocument /\ popup # <<>>
                     /\ DocumentOf[popup[1]] = other
                  THEN <<>> ELSE popup
        message == _get_diagnostic_message(active_view_diagnostics, point)
    IN  /\ pc[t] = "idle"
        /\ dpc[t] = "idle"
        /\ is_initialized
        /\ call.n < MaxHovers
        /\ call' = [n |-> call.n + 1, view |-> view, point |-> point]
        /\ IF view \notin DOMAIN documents
           THEN /\ popup' = hidden
                /\ UNCHANGED <<action_target, loc, pc>>
           ELSE IF message # {}
           THEN /\ popup' = <<view, message>>
                /\ UNCHANGED <<action_target, loc, pc>>
           ELSE /\ request_count + InFlight < 1 + MaxRequests
                /\ popup' = hidden
                /\ action_target' =
                       [action_target EXCEPT ![method] = DocumentOf[view]]
                /\ loc' = [loc EXCEPT ![t] =
                       [NoLoc EXCEPT !.method = method,
                                     !.doc = DocumentOf[view],
                                     !.mark = Len(wire)]]
                /\ pc' = [pc EXCEPT ![t] = "cancel"]
        /\ UNCHANGED <<rmVars, wire, loop_pc, loop_msg, srv_count,
                       issued, canceled_ever, handled, served>>
        /\ UNCHANGED <<docVars, ioVars, imVars>>
        /\ UNCHANGED <<lockVars, ids_issued, diagnostics, active_view,
                       active_view_diagnostics, frame, ret>>

\* ------------------------------------------------------ session lifecycle
\* variant: the transport always reports not running
is_server_running_never == FALSE

\* Client.is_server_running: StandardIO.is_running of the transport
is_server_running == process # None

\* PyserverClient.is_ready
is_ready == is_server_running /\ is_initialized

\* on_activated_async: nothing to do when the client is ready
ActivatedCheck(t) ==
    /\ pc[t] = "idle"
    /\ dpc[t] = "idle"
    /\ ~is_ready
    /\ pc' = [pc EXCEPT ![t] = "start"]
    /\ UNCHANGED <<rmVars, wire, action_target, loc, loop_pc, loop_msg,
                   srv_count, issued, canceled_ever, handled, served>>
    /\ UNCHANGED <<docVars, ioVars, imVars>>
    /\ UNCHANGED <<lockVars, ids_issued, diagVars, fnVars>>

\* start_server: when no server runs, reset_state, then StandardIO.run
\* spawns a process and sets the spawn event, then listen starts a read
\* loop thread
StartServer(t) ==
    /\ pc[t] = "start"
    /\ pc' = [pc EXCEPT ![t] = "initialize"]
    /\ IF process = None
       THEN /\ spawned < MaxSpawns
            /\ documents' = <<>>
            /\ action_target' = [m \in Methods |-> NoDocument]
            /\ is_initializing' = FALSE
            /\ is_initialized' = FALSE
            /\ initialize_event' = FALSE
            /\ DiagnosticsBecome(NoDiagnostics)
            /\ start_log' = start_log \o <<"reset", "run", "listen">>
            /\ spawned' = spawned + 1
            /\ process' = spawned + 1
            /\ run_event' = TRUE
            /\ listeners' = Append(listeners,
                   [pc |-> "wait", proc |-> None, born |-> spawned + 1])
       ELSE UNCHANGED <<documents, action_target, imVars, spawned, process,
                        run_event, listeners, diagnostics, active_view,
                        active_view_diagnostics, start_log>>
    /\ UNCHANGED <<rmVars, wire, loc, loop_pc, loop_msg, srv_count,
                   issued, canceled_ever, handled, served>>
    /\ UNCHANGED <<file_name, dpc, dloc, doc_calls, answered>>
    /\ UNCHANGED <<run_server_lock, ids_issued, popup, fnVars>>

\* start_server, step by step.  First statement: return when the lock is
\* held by anyone
StartLockCheck(t) ==
    /\ pc[t] = "idle"
    /\ dpc[t] = "idle"
    /\ spawned < MaxSpawns
    /\ run_server_lock = ""
    /\ pc' = [pc EXCEPT ![t] = "s_acquire"]
    /\ UNCHANGED <<rmVars, wire, action_target, loc, loop_pc, loop_msg,
                   srv_count, issued, canceled_ever, handled, served>>
    /\ UNCHANGED <<docVars, ioVars, imVars>>
    /\ UNCHANGED <<lockVars, ids_issued, diagVars, fnVars>>

\* start_server: `with self._run_server_lock` blocks until the lock is
\* free
StartAcquire(t) ==
    /\ pc[t] = "s_acquire"
    /\ run_server_lock = ""
    /\ run_server_lock' = t
    /\ pc' = [pc EXCEPT ![t] = "s_running"]
    /\ UNCHANGED <<rmVars, wire, action_target, loc, loop_pc, loop_msg,
                   srv_count, issued, canceled_ever, handled, served>>
    /\ UNCHANGED <<docVars, ioVars, imVars>>
    /\ UNCHANGED <<start_log, ids_issued, diagVars, fnVars>>

\* start_server: `if not self.is_server_running()`
StartCheckRunning(t) ==
    /\ pc[t] = "s_running"
    /\ pc' = [pc EXCEPT ![t] =
           IF is_server_running THEN "s_release" ELSE "s_reset"]
    /\ UNCHANGED <<rmVars, wire, action_target, loc, loop_pc, loop_msg,
                   srv_count, issued, canceled_ever, handled, served>>
    /\ UNCHANGED <<docVars, ioVars, imVars>>
    /\ UNCHANGED <<lockVars, ids_issued, diagVars, fnVars>>

\* start_server: reset_state clears the registry, the action targets,
\* the InitializeManager and the DiagnosticManager
StartReset(t) ==
    /\ pc[t] = "s_reset"
    /\ documents' = <<>>
    /\ action_target' = [m \in Methods |-> NoDocument]
    /\ is_initializing' = FALSE
    /\ is_initialized' = FALSE
    /\ initialize_event' = FALSE
    /\ DiagnosticsBecome(NoDiagnostics)
    /\ start_log' = Append(start_log, "reset")
    /\ pc' = [pc EXCEPT ![t] = "s_run"]
    /\ UNCHANGED <<rmVars, wire, loc, loop_pc, loop_msg,
                   srv_count, issued, canceled_ever, handled, served>>
    /\ UNCHANGED <<file_name, dpc, dloc, doc_calls, ioVars>>
    /\ UNCHANGED <<run_server_lock, ids_issued, popup, fnVars>>

\* start_server: run_server spawns the process and sets the spawn event
StartRun(t) ==
    /\ pc[t] = "s_run"
    /\ spawned < MaxSpawns
    /\ spawned' = spawned + 1
    /\ process' = spawned + 1
    /\ run_event' = TRUE
    /\ wire' = <<>>
    /\ answered' = {}
    /\ start_log' = Append(start_log, "run")
    /\ pc' = [pc EXCEPT ![t] = "s_listen"]
    /\ UNCHANGED <<rmVars, action_target, loc, loop_pc, loop_msg,
                   srv_count, issued, canceled_ever, handled, served>>
    /\ UNCHANGED <<docVars, imVars, listeners>>
    /\ UNCHANGED <<run_server_lock, ids_issued, diagVars, fnVars>>

\* start_server: listen starts a read loop thread
StartListen(t) ==
    /\ pc[t] = "s_listen"
    /\ listeners' = Append(listeners,
           [pc |-> "wait", proc |-> None, born |-> spawned])
    /\ start_log' = Append(start_log, "listen")
    /\ pc' = [pc EXCEPT ![t] = "s_release"]
    /\ UNCHANGED <<rmVars, wire, action_target, loc, loop_pc, loop_msg,
                   srv_count, issued, canceled_ever, handled, served>>
    /\ UNCHANGED <<docVars, imVars, process, run_event, spawned, answered>>
    /\ UNCHANGED <<run_server_lock, ids_issued, diagVars, fnVars>>

\* start_server: the lock is released on leaving the `with` block
StartRelease(t) ==
    /\ pc[t] = "s_release"
    /\ run_server_lock' = ""
    /\ pc' = [pc EXCEPT ![t] = "idle"]
    /\ UNCHANGED <<rmVars, wire, action_target, loc, loop_pc, loop_msg,
                   srv_count, issued, canceled_ever, handled, served>>
    /\ UNCHANGED <<docVars, ioVars, imVars>>
    /\ UNCHANGED <<start_log, ids_issued, diagVars, fnVars>>

\* the terminate command, offered while the client is ready, calls
\* PyserverClient.terminate: StandardIO.terminate clears the spawn event,
\* kills the process, whose pipes go with it, and forgets it; the
\* RequestManager is replaced
Terminate ==
    /\ is_ready
    /\ run_event' = FALSE
    /\ process' = None
    /\ wire' = <<>>
    /\ answered' = {}
    /\ methods_map' = <<>>
    /\ canceled_requests' = {}
    /\ request_count' = 0
    /\ issued' = <<>>
    /\ canceled_ever' = {}
    /\ handled' = <<>>
    /\ UNCHANGED <<action_target, pc, loc, loop_pc, loop_msg, srv_count,
                   served>>
    /\ UNCHANGED <<docVars, imVars, spawned, listeners>>
    /\ UNCHANGED <<lockVars, ids_issued, diagVars, fnVars>>

\* the server process exits on its own: is_running() turns false, its
\* pipes close, the spawn event stays set
ServerExit ==
    /\ process # None
    /\ process' = None
    /\ wire' = <<>>
    /\ answered' = {}
    /\ UNCHANGED <<rmVars, featVars, docVars, imVars,
                   run_event, spawned, listeners>>
    /\ UNCHANGED <<lockVars, ids_issued, diagVars, fnVars>>

\* PyserverClient.initialize(view): returns when already initializing,
\* else set_initializing and send_request("initialize")
InitializeCall(t) ==
    /\ pc[t] = "initialize"
    /\ IF is_initializing
       THEN /\ pc' = [pc EXCEPT ![t] = "idle"]
            /\ UNCHANGED <<is_initializing, loc>>
       ELSE /\ request_count + InFlight < MaxRequests
            /\ is_initializing' = TRUE
            /\ loc' = [loc EXCEPT ![t] = [NoLoc EXCEPT
                           !.method = "initialize"]]
            /\ pc' = [pc EXCEPT ![t] = "cancel"]
    /\ UNCHANGED <<rmVars, wire, action_target, loop_pc, loop_msg,
                   srv_count, issued, canceled_ever, handled, served>>
    /\ UNCHANGED <<docVars, ioVars, is_initialized, initialize_event>>
    /\ UNCHANGED <<lockVars, ids_issued, diagVars, fnVars>>

\* send_request("initialize") returns to initialize(view)
InitializeReturn(t) ==
    /\ pc[t] = "done"
    /\ loc[t].method = "initialize"
    /\ pc' = [pc EXCEPT ![t] = "idle"]
    /\ loc' = [loc EXCEPT ![t] = NoLoc]
    /\ UNCHANGED <<rmVars, wire, action_target, loop_pc, loop_msg, srv_count,
                   issued, canceled_ever, handled, served>>
    /\ UNCHANGED <<docVars, ioVars, imVars>>
    /\ UNCHANGED <<lockVars, ids_issued, diagVars, fnVars>>

\* ------------------------------------------------------ read loop threads
\* the listeners without the l-th, whose thread has ended
Ended(ls, l) == [i \in 1..(Len(ls) - 1) |-> IF i < l THEN ls[i] ELSE ls[i + 1]]

\* StandardIO.read: past the spawn event the loop reads the stdout of the
\* current process; without a process stdout is an empty BytesIO, read
\* raises EOFError and the loop ends
ListenRead(l) ==
    /\ l \in DOMAIN listeners
    /\ listeners[l].pc = "wait"
    /\ run_event
    /\ listeners' = IF process = None THEN Ended(listeners, l)
                    ELSE [listeners EXCEPT ![l].pc = "reading",
                                           ![l].proc = process]
    /\ UNCHANGED <<rmVars, wire, featVars, docVars, imVars,
                   process, run_event, spawned, answered>>
    /\ UNCHANGED <<lockVars, ids_issued, diagVars, fnVars>>

\* the process whose stdout is read was killed: EOFError ends the loop
ListenEOF(l) ==
    /\ l \in DOMAIN listeners
    /\ listeners[l].pc = "reading"
    /\ process # listeners[l].proc
    /\ listeners' = Ended(listeners, l)
    /\ UNCHANGED <<rmVars, wire, featVars, docVars, imVars,
                   process, run_event, spawned, answered>>
    /\ UNCHANGED <<lockVars, ids_issued, diagVars, fnVars>>

\* the server answers an `initialize` Request it received and the loop
\* that reads its stdout takes the Response. _handle_response pops the id
\* (Canceled is ignored, KeyError is logged by _listen_task) and runs
\* handle_initialize: an error is printed; otherwise the `initialized`
\* notification is written and initialize_manager.initialize() is called
ListenResponse(l, id, outcome) ==
    /\ l \in DOMAIN listeners
    /\ listeners[l].pc = "reading"
    /\ process = listeners[l].proc
    /\ Frame(process, Request(id, "initialize")) \in
           {wire[i] : i \in 1..Len(wire)}
    /\ <<process, id>> \notin answered
    /\ answered' = answered \cup {<<process, id>>}
    /\ listeners' = [listeners EXCEPT ![l].pc = "wait"]
    /\ LET r == pop(methods_map, canceled_requests, id)
       IN  /\ methods_map' = r.methods_map
           /\ canceled_requests' = r.canceled_requests
           /\ handled' = IF r.raised = ""
                         THEN Append(handled, [id |-> id, method |-> r.method])
                         ELSE handled
           /\ IF r.raised = "" /\ outcome = "result"
              THEN /\ wire' = write(wire, process,
                                    Notification("initialized", None))
                   /\ initialize_event' = TRUE
                   /\ is_initializing' = FALSE
                   /\ is_initialized' = TRUE
              ELSE UNCHANGED <<wire, imVars>>
    /\ UNCHANGED <<request_count, action_target, pc, loc, loop_pc, loop_msg,
                   srv_count, issued, canceled_ever, served>>
    /\ UNCHANGED <<docVars, process, run_event, spawned>>
    /\ UNCHANGED <<lockVars, ids_issued, diagVars, fnVars>>

\* --------------------------------------------------------- WorkspaceEdit
Files == {"f1", "f2"}

\* an entry of documentChanges: a text edit of `file` when kind is "",
\* else a create / delete of `file` or a rename of `file` to `to`
TextEdits == [kind : {""}, file : Files, to : {""}]
ResourceOps ==
    [kind : {"create", "delete"}, file : Files, to : {""}]
        \cup {e \in [kind : {"rename"}, file : Files, to : Files] :
                  e.file # e.to}
Entries == TextEdits \cup ResourceOps

\* the disk when the edit arrives: f1 holds text, f2 does not exist
InitFiles == [f \in Files |-> IF f = "f1" THEN "text" ELSE "absent"]

\* _apply_textedit_changes: UnbufferedDocument(file_name) reads the file
\* and raises when it is missing; apply_changes and save rewrite it
_apply_textedit_changes(fs, e) ==
    IF fs[e.file] = "absent"
    THEN [raised |-> TRUE, files |-> fs]
    ELSE [raised |-> FALSE, files |-> [fs EXCEPT ![e.file] = "edited"]]

\* _apply_resource_changes: create_document touches and empties the file,
\* rename_document and delete_document raise when the file is missing
_apply_resource_changes(fs, e) ==
    IF e.kind = "create"
    THEN [raised |-> FALSE, files |-> [fs EXCEPT ![e.file] = "empty"]]
    ELSE IF fs[e.file] = "absent"
    THEN [raised |-> TRUE, files |-> fs]
    ELSE IF e.kind = "rename"
    THEN [raised |-> FALSE,
          files |-> [fs EXCEPT ![e.to] = fs[e.file], ![e.file] = "absent"]]
    ELSE [raised |-> FALSE, files |-> [fs EXCEPT ![e.file] = "absent"]]

\* variant: the exception leaves the handler
handle_workspace_applyedit_raise(raised) ==
    IF raised THEN "raised" ELSE "applied"

\* handle_workspace_applyedit: {applied: False} when apply_changes
\* raised, {applied: True} otherwise
handle_workspace_applyedit(raised) ==
    IF raised THEN "not applied" ELSE "applied"

\* WorkspaceEdit.apply_changes, one turn of its loop: a resource
\* operation is executed and apply_changes returns; a text edit is
\* executed and the loop goes on
ApplyChange ==
    /\ ret = ""
    /\ frame.k <= Len(call)
    /\ LET e == call[frame.k]
           r == IF e.kind # "" THEN _apply_resource_changes(frame.files, e)
                ELSE _apply_textedit_changes(frame.files, e)
       IN  /\ frame' = [k |-> frame.k + 1,
                        files |-> r.files,
                        log |-> IF r.raised THEN frame.log
                                ELSE Append(frame.log, e)]
           /\ ret' = IF r.raised \/ e.kind # ""
                     THEN handle_workspace_applyedit(r.raised)
                     ELSE ""
    /\ UNCHANGED <<rmVars, wire, featVars, docVars, ioVars, imVars>>
    /\ UNCHANGED <<lockVars, ids_issued, diagVars, call>>

\* WorkspaceEdit.apply_changes: the loop has run out of entries
ApplyChangesReturn ==
    /\ ret = ""
    /\ frame.k > Len(call)
    /\ ret' = handle_workspace_applyedit(FALSE)
    /\ UNCHANGED <<rmVars, wire, featVars, docVars, ioVars, imVars>>
    /\ UNCHANGED <<lockVars, ids_issued, diagVars, call, frame>>

\* ---------------------------------------------------- UnbufferedDocument
\* a text is a sequence of characters; new texts have lengths 0 and 2
Chars == {"a", "\n"}
NewTexts == {<<>>, <<"x", "y">>}
Texts == UNION {[1..n -> Chars] : n \in 0..MaxLen}

\* Python's index clamping of seq[lo:hi]: a negative index counts from
\* the end, and both ends are clamped to 0..len
PyIndex(n, i) ==
    IF i < 0 THEN (IF n + i < 0 THEN 0 ELSE n + i)
    ELSE IF i > n THEN n ELSE i

PySlice(seq, lo, hi) ==
    LET a == PyIndex(Len(seq), lo)
        b == PyIndex(Len(seq), hi)
    IN  IF a < b THEN SubSeq(seq, a + 1, b) ELSE <<>>

\* the (row, column) a server reports for the offset off of text
ToPosition(text, off) ==
    LET nl == {i \in 1..off : text[i] = "\n"}
        last == IF nl = {} THEN 0 ELSE CHOOSE i \in nl : \A j \in nl : j <= i
    IN  <<Cardinality(nl), off - last>>

\* changes of a text of length n that do not overlap pairwise, as
\* offsets, in any order
OffsetChanges(n) ==
    {c \in [s : 0..n, e : 0..n, text : NewTexts] : c.s <= c.e}

NonOverlapping(n) ==
    UNION {{cs \in [1..k -> OffsetChanges(n)] :
                \A i, j \in 1..k :
                    i # j => cs[i].e <= cs[j].s \/ cs[j].e <= cs[i].s}
           : k \in 0..MaxChanges}

\* rpc_to_textchange: a change carries start and end as (row, column)
rpc_to_textchange(text, c) ==
    [start |-> ToPosition(text, c.s),
     end |-> ToPosition(text, c.e),
     text |-> c.text]

\* UnbufferedDocument.lines: text.splitlines(keepends=True)
RECURSIVE lines(_)
lines(text) ==
    IF text = <<>> THEN <<>>
    ELSE LET nl == {i \in 1..Len(text) : text[i] = "\n"}
             n == IF nl = {} THEN Len(text)
                  ELSE CHOOSE i \in nl : \A j \in nl : i <= j
         IN  <<SubSeq(text, 1, n)>> \o lines(SubSeq(text, n + 1, Len(text)))

RECURSIVE SumLen(_)
SumLen(ls) == IF ls = <<>> THEN 0 ELSE Len(ls[1]) + SumLen(Tail(ls))

\* UnbufferedDocument.calculate_offset
calculate_offset(text, row, column) ==
    SumLen(PySlice(lines(text), 0, row)) + column

\* UnbufferedDocument.to_text_change
to_text_change(text, change) ==
    LET start == calculate_offset(text, change.start[1], change.start[2])
        end == calculate_offset(text, change.end[1], change.end[2])
    IN  [span |-> <<start, end>>,
         old_text |-> PySlice(text, start, end),
         new_text |-> change.text]

\* variant: a change never moves what follows it
offset_move_zero(tc) == 0

\* _UnbufferedTextChange.offset_move
offset_move(tc) == Len(tc.new_text) - Len(tc.old_text)

\* _UnbufferedTextChange.get_moved_span
get_moved_span(tc, move) == <<tc.span[1] + move, tc.span[2] + move>>

\* _update_text, its first line: every change is converted against the
\* text the document holds
ToTextChanges ==
    /\ frame.pc = "convert"
    /\ frame' = [pc |-> "loop",
                 text_changes |->
                     [i \in DOMAIN call.changes |->
                         to_text_change(call.source, call.changes[i])],
                 temp |-> call.source,
                 move |-> 0,
                 i |-> 1]
    /\ UNCHANGED <<rmVars, wire, featVars, docVars, ioVars, imVars>>
    /\ UNCHANGED <<lockVars, ids_issued, diagVars, call, ret>>

\* _update_text, one turn of its loop, in the order of the list
Splice ==
    /\ frame.pc = "loop"
    /\ frame.i <= Len(frame.text_changes)
    /\ LET change == frame.text_changes[frame.i]
           span == get_moved_span(change, frame.move)
       IN  frame' = [frame EXCEPT
                        !.temp = PySlice(frame.temp, 0, span[1])
                                     \o change.new_text
                                     \o PySlice(frame.temp, span[2],
                                                Len(frame.temp)),
                        !.move = frame.move + offset_move(change),
                        !.i = frame.i + 1]
    /\ UNCHANGED <<rmVars, wire, featVars, docVars, ioVars, imVars>>
    /\ UNCHANGED <<lockVars, ids_issued, diagVars, call, ret>>

\* _update_text returns and apply_changes stores the text
UpdateTextReturn ==
    /\ frame.pc = "loop"
    /\ frame.i > Len(frame.text_changes)
    /\ frame' = [frame EXCEPT !.pc = "done"]
    /\ ret' = frame.temp
    /\ UNCHANGED <<rmVars, wire, featVars, docVars, ioVars, imVars>>
    /\ UNCHANGED <<lockVars, ids_issued, diagVars, call>>

\* ------------------------------------------------------------ RPCMessage
\* Python values that json.dumps accepts and json.loads returns, tagged
\* with their type; a str is a sequence of characters, a dict a function
\* of its keys
PyInt(n) == [t |-> "int", v |-> n]
PyStr(s) == [t |-> "str", v |-> s]
PyNone == [t |-> "None", v |-> 0]
PyList(l) == [t |-> "list", v |-> l]
PyDict(d) == [t |-> "dict", v |-> d]

\* strings with a plain character, a character outside ASCII and a quote
StrValues == {<<>>, <<"a">>, <<"U+00E9">>, <<"a", "\"">>}
Atoms == {PyInt(0), PyInt(12), PyNone} \cup {PyStr(s) : s \in StrValues}
Params ==
    Atoms
        \cup {PyList(l) : l \in UNION {[1..n -> Atoms] : n \in 0..MaxItems}}
        \cup {PyDict([k \in {"k"} |-> a]) : a \in Atoms}
        \cup {PyDict(<<>>)}

\* RPCMessage.request, notification and response
RpcMessages ==
    {PyDict([k \in {"id", "method", "params"} |->
                IF k = "id" THEN PyInt(i)
                ELSE IF k = "method" THEN PyStr(<<"a">>) ELSE x])
        : i \in {1, 12}, x \in Params}
    \cup {PyDict([k \in {"method", "params"} |->
                IF k = "method" THEN PyStr(<<"a">>) ELSE x]) : x \in Params}
    \cup {PyDict([k \in {"id", r} |-> IF k = "id" THEN PyInt(12) ELSE x])
        : r \in {"result", "error"}, x \in Params}

\* the order in which the keys of a message were inserted
KeyOrder == <<"id", "method", "params", "result", "error", "k", "jsonrpc">>
KeysOf(d) == SelectSeq(KeyOrder, LAMBDA k : k \in DOMAIN d)

DigitChars == <<"0", "1", "2", "3", "4", "5", "6", "7", "8", "9">>
IsDigit(c) == \E n \in 1..Len(DigitChars) : DigitChars[n] = c
DigitValue(c) == (CHOOSE n \in 1..Len(DigitChars) : DigitChars[n] = c) - 1

RECURSIVE IntChars(_)
IntChars(n) ==
    IF n < Len(DigitChars) THEN <<DigitChars[n + 1]>>
    ELSE IntChars(n \div Len(DigitChars))
             \o <<DigitChars[(n % Len(DigitChars)) + 1]>>

\* json.dumps with ensure_ascii: a quote is escaped, a character outside
\* ASCII is written as a \u escape
EscapeChar(c) ==
    IF c = "\"" THEN <<"\\", "\"">>
    ELSE IF c = "U+00E9" THEN <<"\\", "u", "0", "0", "e", "9">>
    ELSE <<c>>

RECURSIVE EscapeAll(_)
EscapeAll(str) ==
    IF str = <<>> THEN <<>> ELSE EscapeChar(str[1]) \o EscapeAll(Tail(str))

\* json.dumps: items separated by ", ", key and value by ": "
RECURSIVE json_dumps(_)
RECURSIVE DumpItems(_)
RECURSIVE DumpPairs(_, _)
json_dumps(x) ==
    CASE x.t = "int" -> IntChars(x.v)
      [] x.t = "None" -> <<"n", "u", "l", "l">>
      [] x.t = "str" -> <<"\"">> \o EscapeAll(x.v) \o <<"\"">>
      [] x.t = "list" -> <<"[">> \o DumpItems(x.v) \o <<"]">>
      [] x.t = "dict" -> <<"{">> \o DumpPairs(x.v, KeysOf(x.v)) \o <<"}">>

DumpItems(l) ==
    IF l = <<>> THEN <<>>
    ELSE json_dumps(l[1])
             \o (IF Len(l) > 1 THEN <<",", " ">> ELSE <<>>)
             \o DumpItems(Tail(l))

DumpPairs(d, keys) ==
    IF keys = <<>> THEN <<>>
    ELSE json_dumps(PyStr(<<keys[1]>>)) \o <<":", " ">> \o json_dumps(d[keys[1]])
             \o (IF Len(keys) > 1 THEN <<",", " ">> ELSE <<>>)
             \o DumpPairs(d, Tail(keys))

\* str.encode: the UTF-8 bytes of every character
Utf8(c) == IF c = "U+00E9" THEN <<"0xC3", "0xA9">> ELSE <<c>>

RECURSIVE encode(_)
encode(str) == IF str = <<>> THEN <<>> ELSE Utf8(str[1]) \o encode(Tail(str))

\* RPCMessage.dumps(as_bytes=True): the message gets "jsonrpc": "2.0",
\* then it is dumped and encoded
WithJsonRpc(m) ==
    PyDict([k \in DOMAIN m.v \cup {"jsonrpc"} |->
               IF k = "jsonrpc" THEN PyStr(<<"2", ".", "0">>) ELSE m.v[k]])

dumps(m) == encode(json_dumps(WithJsonRpc(m)))

\* json.loads: the value a text stands for, or a failure
ParseFail == [ok |-> FALSE, v |-> PyNone, i |-> 0]
At(b, i) == IF i >= 1 /\ i <= Len(b) THEN b[i] ELSE ""

RECURSIVE Skip(_, _)
Skip(b, i) == IF At(b, i) = " " THEN Skip(b, i + 1) ELSE i

RECURSIVE ParseInt(_, _, _)
ParseInt(b, i, acc) ==
    IF IsDigit(At(b, i))
    THEN ParseInt(b, i + 1, acc * Len(DigitChars) + DigitValue(At(b, i)))
    ELSE [ok |-> TRUE, v |-> PyInt(acc), i |-> i]

RECURSIVE ParseString(_, _, _)
ParseString(b, i, acc) ==
    LET c == At(b, i)
    IN  IF c = "" THEN ParseFail
        ELSE IF c = "\"" THEN [ok |-> TRUE, v |-> PyStr(acc), i |-> i + 1]
        ELSE IF c = "\\"
        THEN IF At(b, i + 1) = "\""
             THEN ParseString(b, i + 2, Append(acc, "\""))
             ELSE IF At(b, i + 1) = "u" /\ i + 5 <= Len(b)
                     /\ SubSeq(b, i + 2, i + 5) = <<"0", "0", "e", "9">>
             THEN ParseString(b, i + 6, Append(acc, "U+00E9"))
             ELSE ParseFail
        ELSE ParseString(b, i + 1, Append(acc, c))

RECURSIVE ParseValue(_, _)
RECURSIVE ParseItems(_, _, _)
RECURSIVE ParsePairs(_, _, _)
ParseValue(b, i) ==
    LET c == At(b, i)
    IN  IF IsDigit(c) THEN ParseInt(b, i, 0)
        ELSE IF c = "\"" THEN ParseString(b, i + 1, <<>>)
        ELSE IF c = "n"
        THEN IF i + 3 <= Len(b) /\ SubSeq(b, i, i + 3) = <<"n", "u", "l", "l">>
             THEN [ok |-> TRUE, v |-> PyNone, i |-> i + 4]
             ELSE ParseFail
        ELSE IF c = "["
        THEN IF At(b, Skip(b, i + 1)) = "]"
             THEN [ok |-> TRUE, v |-> PyList(<<>>), i |-> Skip(b, i + 1) + 1]
             ELSE ParseItems(b, Skip(b, i + 1), <<>>)
        ELSE IF c = "{"
        THEN IF At(b, Skip(b, i + 1)) = "}"
             THEN [ok |-> TRUE, v |-> PyDict(<<>>), i |-> Skip(b, i + 1) + 1]
             ELSE ParsePairs(b, Skip(b, i + 1), <<>>)
        ELSE ParseFail

ParseItems(b, i, acc) ==
    LET r == ParseValue(b, i)
        j == Skip(b, r.i)
    IN  IF ~r.ok THEN ParseFail
        ELSE IF At(b, j) = ","
        THEN ParseItems(b, Skip(b, j + 1), Append(acc, r.v))
        ELSE IF At(b, j) = "]"
        THEN [ok |-> TRUE, v |-> PyList(Append(acc, r.v)), i |-> j + 1]
        ELSE ParseFail

ParsePairs(b, i, acc) ==
    LET k == IF At(b, i) = "\"" THEN ParseString(b, i + 1, <<>>) ELSE ParseFail
        c == Skip(b, k.i)
        r == ParseValue(b, Skip(b, c + 1))
        j == Skip(b, r.i)
        key == IF k.v.v = <<>> THEN "" ELSE k.v.v[1]
        d == [x \in DOMAIN acc \cup {key} |-> IF x = key THEN r.v ELSE acc[x]]
    IN  IF ~k.ok \/ At(b, c) # ":" THEN ParseFail
        ELSE IF ~r.ok THEN ParseFail
        ELSE IF At(b, j) = ","
        THEN ParsePairs(b, Skip(b, j + 1), d)
        ELSE IF At(b, j) = "}"
        THEN [ok |-> TRUE, v |-> PyDict(d), i |-> j + 1]
        ELSE ParseFail

json_loads(b) ==
    LET r == ParseValue(b, Skip(b, 1))
    IN  IF r.ok /\ Skip(b, r.i) = Len(b) + 1 THEN r ELSE ParseFail

\* RPCMessage.load: json.loads, then "jsonrpc" must be "2.0"
load(data) ==
    LET r == json_loads(data)
    IN  IF ~r.ok THEN [raised |-> "JSONDecodeError", message |-> PyNone]
        ELSE IF r.v.t # "dict"
        THEN [raised |-> "AttributeError", message |-> PyNone]
        ELSE IF "jsonrpc" \notin DOMAIN r.v.v
                \/ r.v.v["jsonrpc"] # PyStr(<<"2", ".", "0">>)
        THEN [raised |-> "ValueError", message |-> PyNone]
        ELSE [raised |-> "", message |-> r.v]

\* ------------------------------------------------------ StandardIO.read
\* what readline returns from stdout: a header line "name: digits\r\n"
\* (digits may be missing), the separator "\r\n", or, past the separator,
\* one byte of the body
HeaderLines ==
    [name : {"Content-Length"}, digits : {<<n>> : n \in 0..MaxBody},
     byte : {""}]
        \cup [name : {"Content-Length", "content-length", "Content-Type"},
              digits : {<<>>}, byte : {""}]
        \cup [name : {"content-length"}, digits : {<<1>>}, byte : {""}]
Separator == [name |-> "", digits |-> <<>>, byte |-> ""]
Byte == [name |-> "byte", digits |-> <<>>, byte |-> "b"]

\* the streams a server can leave on stdout before it closes it: header
\* lines, then nothing more, or the separator and some bytes
Streams ==
    UNION {{h, h \o <<Separator>> \o [i \in 1..b |-> Byte]}
           : h \in UNION {[1..n -> HeaderLines] : n \in 0..MaxHeaderLines},
             b \in 0..MaxBody}

\* variant: a header without the length means an empty body
get_content_length_default(header) ==
    LET m == {i \in 1..Len(header) :
                 header[i].name = "Content-Length" /\ header[i].digits # <<>>}
    IN  IF m = {} THEN [raised |-> FALSE, length |-> 0]
        ELSE [raised |-> FALSE,
              length |-> header[CHOOSE i \in m : \A j \in m : i <= j].digits[1]]

\* get_content_length: the number of the first line that matches
\* "Content-Length: (\d+)" at its start; HeaderError when none does
get_content_length(header) ==
    LET m == {i \in 1..Len(header) :
                 header[i].name = "Content-Length" /\ header[i].digits # <<>>}
    IN  IF m = {} THEN [raised |-> TRUE, length |-> 0]
        ELSE [raised |-> FALSE,
              length |-> header[CHOOSE i \in m : \A j \in m : i <= j].digits[1]]

\* StandardIO.read, one turn of the header loop: readline returns
\* nothing at the end of the stream, the separator ends the header,
\* any other line is added to the header buffer
ReadLine ==
    /\ frame.pc = "header"
    /\ IF frame.pos > Len(call)
       THEN frame' = [frame EXCEPT !.pc = "length"]
       ELSE IF call[frame.pos] = Separator
       THEN frame' = [frame EXCEPT !.pc = "length", !.pos = frame.pos + 1]
       ELSE frame' = [frame EXCEPT
                         !.header = Append(frame.header, call[frame.pos]),
                         !.pos = frame.pos + 1]
    /\ UNCHANGED <<rmVars, wire, featVars, docVars, ioVars, imVars>>
    /\ UNCHANGED <<lockVars, ids_issued, diagVars, call, ret>>

\* StandardIO.read: EOFError for an empty header, else
\* get_content_length, whose HeaderError is logged and raised again
ReadLength ==
    /\ frame.pc = "length"
    /\ LET r == get_content_length(frame.header)
       IN  IF frame.header = <<>>
           THEN /\ frame' = [frame EXCEPT !.pc = "done"]
                /\ ret' = "EOFError"
           ELSE IF r.raised
           THEN /\ frame' = [frame EXCEPT !.pc = "done"]
                /\ ret' = "HeaderError"
           ELSE /\ frame' = [frame EXCEPT !.pc = "body",
                                          !.defined_length = r.length]
                /\ ret' = ret
    /\ UNCHANGED <<rmVars, wire, featVars, docVars, ioVars, imVars>>
    /\ UNCHANGED <<lockVars, ids_issued, diagVars, call>>

\* StandardIO.read, one turn of the body loop: stdout.read(missing)
\* returns the missing bytes, or fewer at the end of the stream, and
\* nothing at all raises EOFError; with nothing missing the content is
\* returned
ReadBody ==
    /\ frame.pc = "body"
    /\ LET missing == frame.defined_length - frame.received_length
           left == Len(call) - frame.pos + 1
           chunk == IF missing < left THEN missing ELSE left
       IN  IF missing > 0
           THEN IF chunk > 0
                THEN /\ frame' = [frame EXCEPT
                            !.received_length = frame.received_length + chunk,
                            !.content = frame.content \o
                                [i \in 1..chunk |->
                                    call[frame.pos + i - 1].byte],
                            !.pos = frame.pos + chunk]
                     /\ ret' = ret
                ELSE /\ frame' = [frame EXCEPT !.pc = "done"]
                     /\ ret' = "EOFError"
           ELSE /\ frame' = [frame EXCEPT !.pc = "done"]
                /\ ret' = "content"
    /\ UNCHANGED <<rmVars, wire, featVars, docVars, ioVars, imVars>>
    /\ UNCHANGED <<lockVars, ids_issued, diagVars, call>>

\* variant: the header gives the length of the body without its last byte
wrap_rpc_short(content) ==
    <<[name |-> "Content-Length",
       digits |-> <<IF content = <<>> THEN 0 ELSE Len(content) - 1>>,
       byte |-> ""],
      Separator>>
        \o [i \in 1..Len(content) |->
               [name |-> "byte", digits |-> <<>>, byte |-> content[i]]]

\* wrap_rpc: "Content-Length: len(content)", the separator, the content
wrap_rpc(content) ==
    <<[name |-> "Content-Length", digits |-> <<Len(content)>>, byte |-> ""],
      Separator>>
        \o [i \in 1..Len(content) |->
               [name |-> "byte", digits |-> <<>>, byte |-> content[i]]]

\* the locals of StandardIO.read at its start; message is the message
\* whose frame is read, when it is known
ReadFrame(message) ==
    [pc |-> "header", pos |-> 1, header |-> <<>>, defined_length |-> 0,
     received_length |-> 0, content |-> <<>>, message |-> message,
     loaded |-> PyNone]

\* Client.send_message on one side of a pipe whose other side is read by
\* StandardIO.read: the dumped message is wrapped and written
SendMessage ==
    /\ frame.pc = "send"
    /\ frame' = ReadFrame(WithJsonRpc(frame.message))
    /\ call' = wrap_rpc(dumps(frame.message))
    /\ UNCHANGED <<rmVars, wire, featVars, docVars, ioVars, imVars>>
    /\ UNCHANGED <<lockVars, ids_issued, diagVars, ret>>

\* listen_message: RPCMessage.load(content)
Load ==
    /\ frame.pc = "done"
    /\ ret = "content"
    /\ LET r == load(frame.content)
       IN  /\ frame' = [frame EXCEPT !.pc = "loaded", !.loaded = r.message]
           /\ ret' = IF r.raised = "" THEN "message" ELSE r.raised
    /\ UNCHANGED <<rmVars, wire, featVars, docVars, ioVars, imVars>>
    /\ UNCHANGED <<lockVars, ids_issued, diagVars, call>>

\* ------------------------------------------- diagnostics.DiagnosticManager
\* the manager of diagnostics.py keeps its items by file name; an item is
\* known by its severity, a status is <<errors, warnings>> and <<>> when
\* the view shows none
Severities == {1, 2}
SeverityLists == UNION {[1..n -> Severities] : n \in 0..MaxItems}

\* _show_status: "ERROR n, WARNING m"
_show_status(dm, view, items) ==
    LET err_count == Cardinality({i \in DOMAIN items : items[i] = 1})
    IN  [dm EXCEPT !.status[view] = <<err_count, Len(items) - err_count>>]

\* _show_report: nothing for a view that is not the active one, nothing
\* when the file has no entry (KeyError)
_show_report(dm, view) ==
    IF view # dm.active_view THEN dm
    ELSE IF file_name[view] \notin DOMAIN dm.diagnostics_items_map THEN dm
    ELSE _show_status(dm, view, dm.diagnostics_items_map[file_name[view]])

\* DiagnosticManager.set of diagnostics.py
ManagerSet(view, items) ==
    /\ frame' = _show_report(
           [frame EXCEPT !.diagnostics_items_map =
               DictSet(frame.diagnostics_items_map, file_name[view], items)],
           view)
    /\ call' = <<"set", view>>
    /\ UNCHANGED <<rmVars, wire, featVars, docVars, ioVars, imVars>>
    /\ UNCHANGED <<lockVars, ids_issued, diagVars, ret>>

\* DiagnosticManager.remove of diagnostics.py
ManagerRemove(view) ==
    /\ frame' = _show_report(
           [frame EXCEPT !.diagnostics_items_map =
               DictRemove(frame.diagnostics_items_map, file_name[view])],
           view)
    /\ call' = <<"remove", view>>
    /\ UNCHANGED <<rmVars, wire, featVars, docVars, ioVars, imVars>>
    /\ UNCHANGED <<lockVars, ids_issued, diagVars, ret>>

\* DiagnosticManager.set_active_view of diagnostics.py
ManagerSetActiveView(view) ==
    /\ frame' = IF view = frame.active_view THEN frame
                ELSE _show_report([frame EXCEPT !.active_view = view], view)
    /\ call' = <<"set_active_view", view>>
    /\ UNCHANGED <<rmVars, wire, featVars, docVars, ioVars, imVars>>
    /\ UNCHANGED <<lockVars, ids_issued, diagVars, ret>>

\* ------------------------------------------------ pythontools.Workspace
\* the Workspace of pythontools.py: documents by view, diagnostics by file
\* name, document_lock (a Lock) and diagnostic_lock (an RLock); the read
\* loop handles publishDiagnostics, the other threads close views
ReadLoop == "loop"
WsThreads == Threads \cup {ReadLoop}
PublishedItems == {{}, {"e1"}}
NoWsLocal == [view |-> "", file_name |-> "", items |-> {}, text |-> {},
              pruned |-> {}]

\* _build_diagnostic_message: one line per item of every file
_build_diagnostic_message(diagnostics_map) ==
    UNION {{<<f, i>> : i \in diagnostics_map[f]} : f \in DOMAIN diagnostics_map}

\* a thread may take the lock: a Lock must be free, an RLock free or its own
CanAcquire(owner, t) == owner = "" \/ owner = t
Free(owner) == owner = ""

\* variant: nothing is pruned
remove_invalid_diagnostic_keep(docs, diagnostics_map) == diagnostics_map

\* Workspace.remove_invalid_diagnostic, its body: the entries of files
\* that no registered document has are deleted
remove_invalid_diagnostic(docs, diagnostics_map) ==
    LET document_files == {docs[v] : v \in DOMAIN docs}
    IN  [f \in DOMAIN diagnostics_map \cap document_files |->
            diagnostics_map[f]]

\* handle_textdocument_publishdiagnostics enters on the read loop:
\* workspace.set_diagnostic(file_name, diagnostics)
PublishSet(path, items) ==
    /\ frame.pc[ReadLoop] = "idle"
    /\ CanAcquire(frame.diagnostic_lock, ReadLoop)
    /\ frame' = [frame EXCEPT
           !.diagnostics = DictSet(frame.diagnostics, path, items),
           !.local[ReadLoop] = [NoWsLocal EXCEPT !.file_name = path,
                                                 !.items = items],
           !.pc[ReadLoop] = "p_with"]
    /\ UNCHANGED <<rmVars, wire, featVars, docVars, ioVars, imVars>>
    /\ UNCHANGED <<lockVars, ids_issued, diagVars, call, ret>>

\* with self.workspace.diagnostic_lock
PublishWith ==
    /\ frame.pc[ReadLoop] = "p_with"
    /\ CanAcquire(frame.diagnostic_lock, ReadLoop)
    /\ frame' = [frame EXCEPT !.diagnostic_lock = ReadLoop,
                              !.pc[ReadLoop] = "p_build"]
    /\ UNCHANGED <<rmVars, wire, featVars, docVars, ioVars, imVars>>
    /\ UNCHANGED <<lockVars, ids_issued, diagVars, call, ret>>

\* _build_diagnostic_message(workspace.get_diagnostics()), the RLock
\* taken again by its owner
PublishBuild ==
    /\ frame.pc[ReadLoop] = "p_build"
    /\ CanAcquire(frame.diagnostic_lock, ReadLoop)
    /\ frame' = [frame EXCEPT
           !.local[ReadLoop].text = _build_diagnostic_message(frame.diagnostics),
           !.pc[ReadLoop] = "p_documents"]
    /\ UNCHANGED <<rmVars, wire, featVars, docVars, ioVars, imVars>>
    /\ UNCHANGED <<lockVars, ids_issued, diagVars, call, ret>>

\* workspace.get_documents(file_name) under document_lock, the documents
\* highlighted, then the with block left
PublishDocuments ==
    /\ frame.pc[ReadLoop] = "p_documents"
    /\ Free(frame.document_lock)
    /\ frame' = [frame EXCEPT !.diagnostic_lock = "",
                              !.pc[ReadLoop] = "p_panel"]
    /\ UNCHANGED <<rmVars, wire, featVars, docVars, ioVars, imVars>>
    /\ UNCHANGED <<lockVars, ids_issued, diagVars, call, ret>>

\* diagnostics_panel.set_content(diagnostic_text)
PublishPanel ==
    /\ frame.pc[ReadLoop] = "p_panel"
    /\ frame' = [frame EXCEPT !.panel = frame.local[ReadLoop].text,
                              !.local[ReadLoop] = NoWsLocal,
                              !.pc[ReadLoop] = "idle"]
    /\ UNCHANGED <<rmVars, wire, featVars, docVars, ioVars, imVars>>
    /\ UNCHANGED <<lockVars, ids_issued, diagVars, call, ret>>

\* textdocument_didclose(view) of pythontools.py: workspace.get_document
\* under document_lock; nothing more for a view that is not registered
CloseGet(t, view) ==
    /\ frame.pc[t] = "idle"
    /\ Free(frame.document_lock)
    /\ frame' = IF view \in DOMAIN frame.documents
                THEN [frame EXCEPT
                         !.local[t] = [NoWsLocal EXCEPT !.view = view,
                             !.file_name = frame.documents[view]],
                         !.pc[t] = "k_remove"]
                ELSE frame
    /\ UNCHANGED <<rmVars, wire, featVars, docVars, ioVars, imVars>>
    /\ UNCHANGED <<lockVars, ids_issued, diagVars, call, ret>>

\* workspace.remove_document(view)
CloseRemove(t) ==
    /\ frame.pc[t] = "k_remove"
    /\ Free(frame.document_lock)
    /\ frame' = [frame EXCEPT
           !.documents = DictRemove(frame.documents, frame.local[t].view),
           !.pc[t] = "k_others"]
    /\ UNCHANGED <<rmVars, wire, featVars, docVars, ioVars, imVars>>
    /\ UNCHANGED <<lockVars, ids_issued, diagVars, call, ret>>

\* workspace.get_documents(file_name): return when another view still
\* shows the file
CloseOthers(t) ==
    /\ frame.pc[t] = "k_others"
    /\ Free(frame.document_lock)
    /\ frame' = IF \E v \in DOMAIN frame.documents :
                       frame.documents[v] = frame.local[t].file_name
                THEN [frame EXCEPT !.local[t] = NoWsLocal, !.pc[t] = "idle"]
                ELSE [frame EXCEPT !.pc[t] = "k_document_lock"]
    /\ UNCHANGED <<rmVars, wire, featVars, docVars, ioVars, imVars>>
    /\ UNCHANGED <<lockVars, ids_issued, diagVars, call, ret>>

\* remove_invalid_diagnostic, its outer decorator: document_lock is taken
CloseLockDocuments(t) ==
    /\ frame.pc[t] = "k_document_lock"
    /\ Free(frame.document_lock)
    /\ frame' = [frame EXCEPT !.document_lock = t,
                              !.pc[t] = "k_diagnostic_lock"]
    /\ UNCHANGED <<rmVars, wire, featVars, docVars, ioVars, imVars>>
    /\ UNCHANGED <<lockVars, ids_issued, diagVars, call, ret>>

\* remove_invalid_diagnostic, its inner decorator and its body:
\* diagnostic_lock is taken, the entries pruned, both locks released
ClosePrune(t) ==
    /\ frame.pc[t] = "k_diagnostic_lock"
    /\ CanAcquire(frame.diagnostic_lock, t)
    /\ LET kept == remove_invalid_diagnostic(frame.documents,
                                             frame.diagnostics)
       IN  frame' = [frame EXCEPT
               !.diagnostics = kept,
               !.local[t].pruned = DOMAIN frame.diagnostics \ DOMAIN kept,
               !.document_lock = "",
               !.pc[t] = "k_build"]
    /\ UNCHANGED <<rmVars, wire, featVars, docVars, ioVars, imVars>>
    /\ UNCHANGED <<lockVars, ids_issued, diagVars, call, ret>>

\* _build_diagnostic_message(workspace.get_diagnostics())
CloseBuild(t) ==
    /\ frame.pc[t] = "k_build"
    /\ CanAcquire(frame.diagnostic_lock, t)
    /\ frame' = [frame EXCEPT
           !.local[t].text = _build_diagnostic_message(frame.diagnostics),
           !.pc[t] = "k_panel"]
    /\ UNCHANGED <<rmVars, wire, featVars, docVars, ioVars, imVars>>
    /\ UNCHANGED <<lockVars, ids_issued, diagVars, call, ret>>

\* diagnostics_panel.set_content(diagnostic_text), then didClose is sent
ClosePanel(t) ==
    /\ frame.pc[t] = "k_panel"
    /\ frame' = [frame EXCEPT !.panel = frame.local[t].text,
                              !.local[t] = NoWsLocal,
                              !.pc[t] = "idle"]
    /\ UNCHANGED <<rmVars, wire, featVars, docVars, ioVars, imVars>>
    /\ UNCHANGED <<lockVars, ids_issued, diagVars, call, ret>>

\* ------------------------------------- PythonToolsSetEnvironmentCommand
\* invocations of the command are numbered; call counts those made, and
\* frame holds is_busy and where the thread of each invocation stands
Runs == 1..MaxRuns

\* run(): nothing when is_busy, else a thread is started for run_task
Run ==
    /\ call < MaxRuns
    /\ call' = call + 1
    /\ frame' = [frame EXCEPT !.pc[call + 1] =
                     IF frame.is_busy THEN "returned" ELSE "started"]
    /\ UNCHANGED <<rmVars, wire, featVars, docVars, ioVars, imVars>>
    /\ UNCHANGED <<lockVars, ids_issued, diagVars, ret>>

\* run_task, first statement: self.is_busy = True; the scan begins
RunTaskBusy(i) ==
    /\ frame.pc[i] = "started"
    /\ frame' = [frame EXCEPT !.is_busy = TRUE, !.pc[i] = "scan"]
    /\ UNCHANGED call
    /\ UNCHANGED <<rmVars, wire, featVars, docVars, ioVars, imVars>>
    /\ UNCHANGED <<lockVars, ids_issued, diagVars, ret>>

\* run_task: the scan ends and show_quick_panel shows the selector
RunTaskShow(i) ==
    /\ frame.pc[i] = "scan"
    /\ frame' = [frame EXCEPT !.pc[i] = "panel"]
    /\ UNCHANGED call
    /\ UNCHANGED <<rmVars, wire, featVars, docVars, ioVars, imVars>>
    /\ UNCHANGED <<lockVars, ids_issued, diagVars, ret>>

\* run_task: scan_environments raises (a folder that cannot be listed);
\* the exception ends the thread of run_task
RunTaskRaise(i) ==
    /\ frame.pc[i] = "scan"
    /\ frame' = [frame EXCEPT !.pc[i] = "raised"]
    /\ UNCHANGED call
    /\ UNCHANGED <<rmVars, wire, featVars, docVars, ioVars, imVars>>
    /\ UNCHANGED <<lockVars, ids_issued, diagVars, ret>>

\* on_select(index): a thread is started for _save_settings, with no
\* manager when the selector was cancelled
OnSelect(i, index) ==
    /\ frame.pc[i] = "panel"
    /\ frame' = [frame EXCEPT !.pc[i] = "save",
                              !.manager[i] = IF index < 0 THEN "" ELSE "env"]
    /\ UNCHANGED call
    /\ UNCHANGED <<rmVars, wire, featVars, docVars, ioVars, imVars>>
    /\ UNCHANGED <<lockVars, ids_issued, diagVars, ret>>

\* _save_settings: save_settings(manager), finally is_busy = False
SaveSettings(i) ==
    /\ frame.pc[i] = "save"
    /\ frame' = [frame EXCEPT !.is_busy = FALSE, !.pc[i] = "saved"]
    /\ UNCHANGED call
    /\ UNCHANGED <<rmVars, wire, featVars, docVars, ioVars, imVars>>
    /\ UNCHANGED <<lockVars, ids_issued, diagVars, ret>>

\* ------------------------------------------------------------------ scan
\* what the scan finds on disk: the PATH folders that hold a python, the
\* *conda* folders of the home directory in glob order, each with or
\* without its own python and with its envs/* folders in glob order, and
\* the folders of workdir, when there is a workdir; the folder named
\* "N" has no python
EnvLists == {<<>>, <<"A">>, <<"A", "B">>, <<"B", "A">>, <<"A", "N">>}
VenvLists == {<<>>, <<"venv">>, <<"N", "venv">>}
PathLists == {<<>>, <<"usr">>, <<"usr", "local">>}
CondaFolders == [python : BOOLEAN, envs : EnvLists]
Disks ==
    [path : PathLists,
     conda : UNION {[1..n -> CondaFolders] : n \in 0..MaxInstalls},
     workdir : BOOLEAN,
     folders : VenvLists]

Candidate(kind, root, env) == [kind |-> kind, root |-> root, env |-> env]

\* scan_global: the pythons found on the PATH
scan_global(disk) ==
    [i \in 1..Len(disk.path) |-> Candidate("Global", 0, disk.path[i])]

\* scan_conda_envs: the envs/* folders that hold a python
RECURSIVE scan_conda_envs(_, _)
scan_conda_envs(root, envs) ==
    IF envs = <<>> THEN <<>>
    ELSE (IF envs[1] # "N" THEN <<Candidate("Conda", root, envs[1])>>
          ELSE <<>>) \o scan_conda_envs(root, Tail(envs))

\* scan_conda: for every *conda* folder that holds a python, the folder
\* itself and then its envs
RECURSIVE scan_conda(_, _)
scan_conda(conda, root) ==
    IF root > Len(conda) THEN <<>>
    ELSE (IF conda[root].python
          THEN <<Candidate("Conda", root, "")>>
                   \o scan_conda_envs(root, conda[root].envs)
          ELSE <<>>) \o scan_conda(conda, root + 1)

\* scan_venv: the folders of workdir that hold a python
RECURSIVE scan_venv(_)
scan_venv(folders) ==
    IF folders = <<>> THEN <<>>
    ELSE (IF folders[1] # "N" THEN <<Candidate("Venv", 0, folders[1])>>
          ELSE <<>>) \o scan_venv(Tail(folders))

\* variant: conda is scanned before the PATH
scan_conda_first(disk) ==
    scan_conda(disk.conda, 1) \o scan_global(disk)
        \o (IF disk.workdir THEN scan_venv(disk.folders) ELSE <<>>)

\* scan(workdir): what the generator yields, in order
scan(disk) ==
    scan_global(disk) \o scan_conda(disk.conda, 1)
        \o (IF disk.workdir THEN scan_venv(disk.folders) ELSE <<>>)

\* list(self.scan_environments()) takes the next candidate
ScanYield ==
    /\ frame.pc = "scan"
    /\ Len(frame.managers) < Len(scan(call))
    /\ frame' = [frame EXCEPT !.managers =
                     Append(frame.managers, scan(call)[Len(frame.managers) + 1])]
    /\ ret' = ret
    /\ UNCHANGED <<rmVars, wire, featVars, docVars, ioVars, imVars>>
    /\ UNCHANGED <<lockVars, ids_issued, diagVars, call>>

\* the generator is exhausted
ScanStop ==
    /\ frame.pc = "scan"
    /\ Len(frame.managers) = Len(scan(call))
    /\ frame' = [frame EXCEPT !.pc = "done"]
    /\ ret' = frame.managers
    /\ UNCHANGED <<rmVars, wire, featVars, docVars, ioVars, imVars>>
    /\ UNCHANGED <<lockVars, ids_issued, diagVars, call>>

\* ----------------------------------------------------------- _listen_task
\* what listen_message gives: a message of one kind, or the exception
\* transport.read or RPCMessage.load raises
MessageKinds == {"request", "notification", "response", "invalid"}
ReadErrors == {"EOFError", "HeaderError", "JSONDecodeError", "ValueError"}
\* what goes wrong while a message is dispatched: nothing, the handler
\* raises, the write of the Response raises, the id is not pending
Faults == {"", "handler", "send", "pop"}

\* handle_message: the exception that leaves it. _handle_request and
\* _handle_notification catch what the handler raises; send_response is
\* outside the try; _handle_response lets the KeyError of pop through
handle_message(kind, fault) ==
    IF kind = "request" /\ fault = "send" THEN "OSError"
    ELSE IF kind = "response" /\ fault = "pop" THEN "KeyError"
    ELSE ""

\* the loop after listen_message: both except clauses break
after_listen(raised) == IF raised = "" THEN "handle" ELSE "ended"

\* variant: an exception that leaves handle_message ends the loop
after_handle_raise(raised) == IF raised = "" THEN "read" ELSE "ended"

\* the loop after handle_message: an exception is logged, the loop goes on
after_handle(raised) == "read"

\* listen_message returns a message
ListenMessage(kind) ==
    /\ frame.pc = "read"
    /\ Len(frame.dispatched) < MaxServerMsgs
    /\ frame' = [frame EXCEPT !.pc = after_listen(""), !.message = kind]
    /\ ret' = ""
    /\ UNCHANGED <<rmVars, wire, featVars, docVars, ioVars, imVars>>
    /\ UNCHANGED <<lockVars, ids_issued, diagVars, call>>

\* listen_message raises: on EOFError the loop breaks; on any other
\* exception terminate_server runs first (StandardIO.terminate, then a
\* new RequestManager)
ListenRaise(raised) ==
    /\ frame.pc = "read"
    /\ frame' = [frame EXCEPT !.pc = after_listen(raised)]
    /\ ret' = raised
    /\ IF raised = "EOFError"
       THEN UNCHANGED <<rmVars, wire, issued, canceled_ever, handled,
                        process, run_event, answered>>
       ELSE /\ run_event' = FALSE
            /\ process' = None
            /\ wire' = <<>>
            /\ answered' = {}
            /\ methods_map' = <<>>
            /\ canceled_requests' = {}
            /\ request_count' = 0
            /\ issued' = <<>>
            /\ canceled_ever' = {}
            /\ handled' = <<>>
    /\ UNCHANGED <<action_target, pc, loc, loop_pc, loop_msg, srv_count,
                   served>>
    /\ UNCHANGED <<docVars, imVars, spawned, listeners>>
    /\ UNCHANGED <<lockVars, ids_issued, diagVars, call>>

\* handle_message(message) inside the try of the loop
HandleMessage(fault) ==
    /\ frame.pc = "handle"
    /\ LET raised == handle_message(frame.message, fault)
       IN  /\ frame' = [frame EXCEPT
                   !.pc = after_handle(raised),
                   !.message = "",
                   !.dispatched = Append(frame.dispatched,
                       [kind |-> frame.message, fault |-> fault,
                        raised |-> raised])]
           /\ ret' = raised
    /\ UNCHANGED <<rmVars, wire, featVars, docVars, ioVars, imVars>>
    /\ UNCHANGED <<lockVars, ids_issued, diagVars, call>>

\* ------------------------------------------------------ wait_initialized
\* variant: the wrapper does not wait
wait_initialized_skip == TRUE

\* wait_initialized: initialize_event.wait() returns once the event is set
wait_initialized == initialize_event

\* textdocument_didopen(view, reload) is called: the wrapper of
\* wait_initialized is entered
DidOpenWait(t, v, reload) ==
    /\ dpc[t] = "idle"
    /\ pc[t] = "idle"
    /\ doc_calls < MaxDocCalls
    /\ doc_calls' = doc_calls + 1
    /\ dloc' = [dloc EXCEPT ![t] = [NoDocLoc EXCEPT !.view = v,
                    !.reload = reload]]
    /\ dpc' = [dpc EXCEPT ![t] = "open_wait"]
    /\ call' = [view |-> v, initialized |-> is_initialized]
    /\ UNCHANGED <<rmVars, wire, featVars, file_name, documents,
                   ioVars, imVars>>
    /\ UNCHANGED <<lockVars, ids_issued, diagVars, frame, ret>>

\* the wait is over and the body starts: file_name = view.file_name(),
\* diagnostic_manager.set_active_view(view)
DidOpenProceed(t) ==
    /\ dpc[t] = "open_wait"
    /\ wait_initialized
    /\ dloc' = [dloc EXCEPT ![t].file_name = file_name[dloc[t].view]]
    /\ dpc' = [dpc EXCEPT ![t] = "open_get"]
    /\ UNCHANGED <<rmVars, wire, featVars, file_name, documents, doc_calls,
                   ioVars, imVars>>
    /\ DiagnosticsBecome(set_active_view(ThisDiagnosticState, dloc[t].view))
    /\ UNCHANGED <<lockVars, ids_issued, popup, fnVars>>

\* -------------------------------------------------------- StandardIO.write
\* send_message on a thread, step by step.  A thread enters
\* StandardIO.write with a message: it is at _run_proces_event.wait();
\* the process that runs at this moment is remembered
WriteWait(t) ==
    /\ pc[t] = "idle"
    /\ dpc[t] = "idle"
    /\ frame.pc \in {"idle", "done"}
    /\ frame.n < MaxDocCalls
    /\ frame' = [pc |-> "wait", n |-> frame.n + 1, thread |-> t,
                 began |-> process, written |-> None]
    /\ UNCHANGED <<rmVars, wire, featVars, docVars, ioVars, imVars>>
    /\ UNCHANGED <<lockVars, ids_issued, diagVars, call, ret>>

\* StandardIO.write past the wait: self.stdin.write(wrap_rpc(data)) on
\* the stdin of the process that is current now
WriteStdin(t) ==
    /\ frame.pc = "wait"
    /\ frame.thread = t
    /\ run_event
    /\ wire' = write(wire, process,
                     DocNotification("textDocument/didSave", "p1"))
    /\ frame' = [frame EXCEPT !.pc = "done", !.written = process]
    /\ UNCHANGED <<rmVars, featVars, docVars, ioVars, imVars>>
    /\ UNCHANGED <<lockVars, ids_issued, diagVars, call, ret>>

\* ------------------------------------------------------ completion slot
\* the completion lists a server answers with
CompletionLists == {<<>>, <<"a">>, <<"b">>}

\* variant: the queue holds two lists
maxsize_two == 1 + 1

\* BufferedDocument._cached_completion = queue.Queue(maxsize=1)
maxsize == 1

\* show_completion(items) on the read loop: put_nowait, which raises
\* queue.Full on a full queue
ShowCompletion(items) ==
    /\ frame.pc = "idle"
    /\ frame.n < MaxCompletions
    /\ frame' = IF Len(frame.queue) < maxsize
                THEN [frame EXCEPT !.pc = "trigger", !.n = @ + 1,
                          !.items = items,
                          !.queue = Append(@, items)]
                ELSE [frame EXCEPT !.pc = "get", !.n = @ + 1,
                          !.items = items]
    /\ ret' = ret
    /\ UNCHANGED <<rmVars, wire, featVars, docVars, ioVars, imVars>>
    /\ UNCHANGED <<lockVars, ids_issued, diagVars, call>>

\* except queue.Full: _ = self._cached_completion.get(), which blocks
\* while the queue is empty
ShowGet ==
    /\ frame.pc = "get"
    /\ frame.queue # <<>>
    /\ frame' = [frame EXCEPT !.pc = "put", !.queue = Tail(@)]
    /\ ret' = ret
    /\ UNCHANGED <<rmVars, wire, featVars, docVars, ioVars, imVars>>
    /\ UNCHANGED <<lockVars, ids_issued, diagVars, call>>

\* except queue.Full: self._cached_completion.put(items), which blocks
\* while the queue is full
ShowPut ==
    /\ frame.pc = "put"
    /\ Len(frame.queue) < maxsize
    /\ frame' = [frame EXCEPT !.pc = "trigger",
                     !.queue = Append(@, frame.items)]
    /\ ret' = ret
    /\ UNCHANGED <<rmVars, wire, featVars, docVars, ioVars, imVars>>
    /\ UNCHANGED <<lockVars, ids_issued, diagVars, call>>

\* _trigger_completion, and show_completion returns
ShowTrigger ==
    /\ frame.pc = "trigger"
    /\ frame' = [frame EXCEPT !.pc = "idle", !.latest = <<frame.items>>]
    /\ ret' = ret
    /\ UNCHANGED <<rmVars, wire, featVars, docVars, ioVars, imVars>>
    /\ UNCHANGED <<lockVars, ids_issued, diagVars, call>>

\* pop_completion on the editor's thread: get_nowait, [] on queue.Empty
PopCompletion ==
    /\ frame.pops < MaxCompletions
    /\ ret' = IF frame.queue # <<>> THEN Head(frame.queue) ELSE <<>>
    /\ frame' = [frame EXCEPT
           !.queue = IF @ # <<>> THEN Tail(@) ELSE @,
           !.pops = @ + 1,
           !.latest = <<>>]
    /\ UNCHANGED <<rmVars, wire, featVars, docVars, ioVars, imVars>>
    /\ UNCHANGED <<lockVars, ids_issued, diagVars, call>>

\* ---------------------------------------------------- on_query_completions
\* _is_context_changed(view, old, new): the point moved out of the
\* identifier around old; in_word says whether new lies in that word and
\* the word is an identifier
_is_context_changed(old, new, in_word) ==
    IF old = new THEN FALSE
    ELSE IF in_word THEN FALSE
    ELSE TRUE

\* on_query_completions(view, prefix, locations) on a ready client and a
\* valid view, point = min(locations).  With a list in the Document of
\* the completion target the list is popped, and returned unless it is
\* empty or the context changed; else the point is remembered and
\* textdocument_completion sends a request when the view has a Document
QueryCompletions(point, in_word, registered) ==
    /\ is_ready
    /\ frame.n < MaxCompletions
    /\ IF frame.cached # <<>>
       THEN LET items == frame.cached[1]
                changed == _is_context_changed(frame.prev_completion_point,
                                               point, in_word)
            IN  /\ frame' = [frame EXCEPT !.cached = <<>>, !.n = @ + 1]
                /\ ret' = [pending |-> TRUE, changed |-> changed,
                           registered |-> registered,
                           returned |-> IF items = <<>> \/ changed
                                        THEN <<>> ELSE <<items>>,
                           requested |-> FALSE]
       ELSE /\ frame' = [frame EXCEPT
                   !.prev_completion_point = point,
                   !.n = @ + 1,
                   !.requests = IF registered THEN @ + 1 ELSE @]
            /\ ret' = [pending |-> FALSE, changed |-> FALSE,
                       registered |-> registered,
                       returned |-> <<>>, requested |-> registered]
    /\ UNCHANGED <<rmVars, wire, featVars, docVars, ioVars, imVars>>
    /\ UNCHANGED <<lockVars, ids_issued, diagVars, call>>

\* the Response to textDocument/completion: handle_textdocument_completion
\* calls show_completion(items) on the target Document
CompletionResponse(items) ==
    /\ frame.requests > frame.responses
    /\ frame' = [frame EXCEPT !.cached = <<items>>, !.responses = @ + 1]
    /\ ret' = ret
    /\ UNCHANGED <<rmVars, wire, featVars, docVars, ioVars, imVars>>
    /\ UNCHANGED <<lockVars, ids_issued, diagVars, call>>

\* ------------------------------------------------------ relocate_selection
\* text points of a small buffer, and the changes to_text_change makes:
\* the region (a, b) replaced and cursor_move = len(text) - region.size()
Offsets == 0..3
BufferedTextChanges ==
    {c \in [a : Offsets, b : Offsets, cursor_move : -3..2] :
         c.a <= c.b /\ c.cursor_move >= c.a - c.b}

\* lists of changes in ascending order that do not overlap
ChangeLists ==
    UNION {{cs \in [1..n -> BufferedTextChanges] :
                \A i \in 1..(n - 1) : cs[i].b <= cs[i + 1].a}
           : n \in 1..MaxChanges}

\* sublime.Region.begin()
begin(region) == IF region.a < region.b THEN region.a ELSE region.b

\* relocate_selection, one turn of the inner loop: the selection in hand
\* is compared with the region of the change and moved
RelocateChange ==
    /\ frame.pc = "relocate"
    /\ frame.i <= Len(call.changes)
    /\ LET change == call.changes[frame.i]
           sel == frame.temp_selection
       IN  frame' = [frame EXCEPT
               !.i = @ + 1,
               !.temp_selection =
                   IF begin(sel) > begin(change)
                   THEN [a |-> sel.a + change.cursor_move,
                         b |-> sel.b + change.cursor_move]
                   ELSE sel]
    /\ ret' = ret
    /\ UNCHANGED <<rmVars, wire, featVars, docVars, ioVars, imVars>>
    /\ UNCHANGED <<lockVars, ids_issued, diagVars, call>>

\* relocate_selection: moved_selections.append(temp_selection), then
\* sel().clear() and sel().add_all(moved_selections)
RelocateReturn ==
    /\ frame.pc = "relocate"
    /\ frame.i > Len(call.changes)
    /\ frame' = [frame EXCEPT !.pc = "done"]
    /\ ret' = frame.temp_selection
    /\ UNCHANGED <<rmVars, wire, featVars, docVars, ioVars, imVars>>
    /\ UNCHANGED <<lockVars, ids_issued, diagVars, call>>

\* --------------------------------------------------- StandardIO.terminate
\* variant: the process is killed without looking whether there is one
terminate_unguarded(p) ==
    [process |-> None, run_event |-> FALSE,
     raised |-> IF p = None THEN "AttributeError" ELSE ""]

\* StandardIO.terminate: the spawn event is cleared; a process, if there
\* is one, is killed, waited for and forgotten
terminate(p) ==
    [process |-> None, run_event |-> FALSE, raised |-> ""]

\* StandardIO.run, called by run_server when no server is running: a
\* process is spawned and the spawn event is set
TransportRun ==
    /\ process = None
    /\ spawned < MaxSpawns
    /\ Len(frame.log) < MaxRuns + MaxSpawns
    /\ spawned' = spawned + 1
    /\ process' = spawned + 1
    /\ run_event' = TRUE
    /\ wire' = <<>>
    /\ answered' = {}
    /\ frame' = [frame EXCEPT !.log = Append(@, "run")]
    /\ ret' = ""
    /\ UNCHANGED <<rmVars, featVars, docVars, imVars, listeners>>
    /\ UNCHANGED <<lockVars, ids_issued, diagVars, call>>

\* StandardIO.write by a caller past the wait for the spawn event
TransportWrite(path) ==
    /\ run_event
    /\ Len(wire) < MaxRequests
    /\ Len(frame.log) < MaxRuns + MaxSpawns
    /\ wire' = write(wire, process,
                     DocNotification("textDocument/didSave", path))
    /\ frame' = [frame EXCEPT !.log = Append(@, "write")]
    /\ ret' = ""
    /\ UNCHANGED <<rmVars, featVars, docVars, ioVars, imVars>>
    /\ UNCHANGED <<lockVars, ids_issued, diagVars, call>>

\* Client.terminate_server: transport.terminate(), then _reset_state
\* replaces the RequestManager
TerminateServer ==
    /\ Len(frame.log) < MaxRuns + MaxSpawns
    /\ LET r == terminate(process)
       IN  /\ process' = r.process
           /\ run_event' = r.run_event
           /\ ret' = r.raised
    /\ wire' = <<>>
    /\ answered' = {}
    /\ methods_map' = <<>>
    /\ canceled_requests' = {}
    /\ request_count' = 0
    /\ issued' = <<>>
    /\ canceled_ever' = {}
    /\ handled' = <<>>
    /\ frame' = [frame EXCEPT !.log = Append(@, "terminate")]
    /\ UNCHANGED <<action_target, pc, loc, loop_pc, loop_msg, srv_count,
                   served>>
    /\ UNCHANGED <<docVars, imVars, spawned, listeners>>
    /\ UNCHANGED <<lockVars, ids_issued, diagVars, call>>

\* ------------------------------------------------------- initial states
\* feature threads idle, read loop waiting for a message
InitFeat ==
    /\ action_target = [m \in Methods |-> NoDocument]
    /\ pc = [t \in Threads |-> "idle"]
    /\ loc = [t \in Threads |-> NoLoc]
    /\ loop_pc = "read"
    /\ loop_msg = NoMsg
    /\ srv_count = 0
    /\ canceled_ever = {}
    /\ served = <<>>

\* no start_server call in progress, no diagnostics
InitAux ==
    /\ run_server_lock = ""
    /\ diagnostics = <<>>
    /\ active_view = ""
    /\ active_view_diagnostics = {}
    /\ popup = <<>>

\* no call is followed step by step
InitFn ==
    /\ call = None
    /\ frame = None
    /\ ret = None

\* both views show file p1, nothing is registered
InitDocs ==
    /\ file_name = [v \in Views |-> "p1"]
    /\ documents = <<>>
    /\ dpc = [t \in Threads |-> "idle"]
    /\ dloc = [t \in Threads |-> NoDocLoc]
    /\ doc_calls = 0

\* the first read loop, blocked in readline on the stdout of process 1
FirstListener == [pc |-> "reading", proc |-> 1, born |-> 1]

\* the session after start_server and a completed handshake: process 1
\* runs, request 1 was `initialize`, its Response was handled and
\* `initialized` was written (pyserver.py:237-272)
InitReadySession ==
    /\ methods_map = <<>>
    /\ canceled_requests = {}
    /\ request_count = 1
    /\ issued = DictSet(<<>>, 1, [method |-> "initialize", doc |-> NoDocument])
    /\ handled = <<[id |-> 1, method |-> "initialize"]>>
    /\ wire = <<Frame(1, Request(1, "initialize")),
                Frame(1, Notification("initialized", None))>>
    /\ process = 1
    /\ run_event = TRUE
    /\ spawned = 1
    /\ listeners = <<FirstListener>>
    /\ answered = {<<1, 1>>}
    /\ is_initializing = FALSE
    /\ is_initialized = TRUE
    /\ initialize_event = TRUE
    /\ start_log = <<"reset", "run", "listen">>
    /\ ids_issued = <<1>>
    /\ InitFeat
    /\ InitDocs
    /\ InitAux

InitReady == InitReadySession /\ InitFn

\* the client as constructed: no process, empty RequestManager, nothing
\* initialized (lsp_client.py:137-138, 260-265; pyserver.py:95-98)
Init ==
    /\ methods_map = <<>>
    /\ canceled_requests = {}
    /\ request_count = 0
    /\ issued = <<>>
    /\ handled = <<>>
    /\ wire = <<>>
    /\ process = None
    /\ run_event = FALSE
    /\ spawned = 0
    /\ listeners = <<>>
    /\ answered = {}
    /\ is_initializing = FALSE
    /\ is_initialized = FALSE
    /\ initialize_event = FALSE
    /\ start_log = <<>>
    /\ ids_issued = <<>>
    /\ InitFeat
    /\ InitDocs
    /\ InitAux
    /\ InitFn

\* ------------------------------------------------------- specifications
ThreadStep(t) ==
    \/ \E m \in Methods : FeatureCall(t, m, DocOf[t])
    \/ SendRequestCancel(t)
    \/ SendCancelNotification(t)
    \/ SendRequestAdd(t)
    \/ SendRequestWrite(t)
    \/ FeatureReturn(t)

ResponseStep ==
    \/ \E id \in 1..(1 + MaxRequests), o \in {"result", "error"} :
          LoopResponse(id, o)
    \/ LoopHandleResponse

ServerCallStep ==
    \/ \E m \in ServerMethods \cup {UnknownMethod},
          o \in {"return", "raise"} : LoopRequest(ServerId(srv_count + 1), m, o)
    \/ \E m \in ServerMethods \cup {UnknownMethod},
          o \in {"return", "raise"} : LoopNotification(m, o)

\* feature calls from every thread, interleaved with the read loop
\* routing Responses
NextRpc == (\E t \in Threads : ThreadStep(t)) \/ ResponseStep
SpecRpc == InitReady /\ [][NextRpc]_vars

\* feature calls from one thread only, interleaved with the read loop
\* routing Responses
NextRpcSeq == ThreadStep("t1") \/ ResponseStep
SpecRpcSeq == InitReady /\ [][NextRpcSeq]_vars

DocStep(t) ==
    \/ \E v \in Views, reload \in BOOLEAN : DidOpenCall(t, v, reload)
    \/ DidOpenGet(t)
    \/ \E v \in Views : DidCloseCall(t, v)
    \/ DidCloseGet(t)
    \/ DidCloseRemove(t)
    \/ DidCloseCheck(t)
    \/ DidCloseSend(t)
    \/ DidOpenAdd(t)
    \/ DidOpenCheck(t)
    \/ DidOpenSend(t)

\* document calls from every thread, interleaved
NextDocs == \E t \in Threads : DocStep(t)
SpecDocs == InitReady /\ [][NextDocs]_vars

\* document calls made one after the other, with files renamed between
\* calls
NextDocsSeq == DocStep("t1") \/ (\E v \in Views, p \in Paths : Retarget(v, p))
SpecDocsSeq == InitReady /\ [][NextDocsSeq]_vars

\* on_activated_async on the editor's async thread
ActivatedStep(t) ==
    \/ ActivatedCheck(t)
    \/ StartServer(t)
    \/ InitializeCall(t)
    \/ SendRequestCancel(t)
    \/ SendCancelNotification(t)
    \/ SendRequestAdd(t)
    \/ SendRequestWrite(t)
    \/ InitializeReturn(t)

\* textdocument_didopen of the active view on a task thread
OpenStep(t) ==
    \/ (doc_calls < MaxOpens /\ DidOpenCall(t, "v1", FALSE))
    \/ DidOpenGet(t)
    \/ DidOpenAdd(t)
    \/ DidOpenCheck(t)
    \/ DidOpenSend(t)

ListenStep(l) ==
    \/ ListenRead(l)
    \/ ListenEOF(l)
    \/ \E id \in 1..MaxRequests, o \in {"result", "error"} :
          ListenResponse(l, id, o)

\* the editor activating views, opening documents and terminating the
\* server while the read loop threads run the handshake
NextLife ==
    \/ ActivatedStep("t1")
    \/ OpenStep("t2")
    \/ Terminate
    \/ ServerExit
    \/ \E l \in 1..MaxSpawns : ListenStep(l)
SpecLife == Init /\ [][NextLife]_vars

StartStep(t) ==
    \/ StartLockCheck(t)
    \/ StartAcquire(t)
    \/ StartCheckRunning(t)
    \/ StartReset(t)
    \/ StartRun(t)
    \/ StartListen(t)
    \/ StartRelease(t)

\* start_server called from every thread while server processes come and
\* go and the read loops follow them
NextStart ==
    \/ \E t \in Threads : StartStep(t)
    \/ ServerExit
    \/ \E l \in 1..MaxSpawns : ListenRead(l) \/ ListenEOF(l)
SpecStart == Init /\ [][NextStart]_vars

\* a workspace/applyEdit request arrives with any list of at most
\* MaxEntries entries
InitEdit ==
    /\ InitReadySession
    /\ call \in UNION {[1..n -> Entries] : n \in 0..MaxEntries}
    /\ frame = [k |-> 1, files |-> InitFiles, log |-> <<>>]
    /\ ret = ""

NextEdit == ApplyChange \/ ApplyChangesReturn
SpecEdit == InitEdit /\ [][NextEdit]_vars

\* apply_changes is called on any text of at most MaxLen characters with
\* any list of at most MaxChanges changes that do not overlap
InitSplice ==
    /\ InitReadySession
    /\ call \in UNION {{[source |-> t,
                         changes |-> [i \in DOMAIN cs |->
                                         rpc_to_textchange(t, cs[i])]]
                        : cs \in NonOverlapping(Len(t))}
                       : t \in Texts}
    /\ frame = [pc |-> "convert", text_changes |-> <<>>, temp |-> <<>>,
                move |-> 0, i |-> 1]
    /\ ret = <<>>

NextSplice == ToTextChanges \/ Splice \/ UpdateTextReturn
SpecSplice == InitSplice /\ [][NextSplice]_vars

\* views are opened and hovered from every thread while the server
\* publishes diagnostics
InitHover ==
    /\ InitReadySession
    /\ call = [n |-> 0, view |-> "", point |-> 0]
    /\ frame = None
    /\ ret = None

HoverStep(t) ==
    \/ \E v \in Views : DidOpenCall(t, v, FALSE)
    \/ DidOpenGet(t)
    \/ DidOpenAdd(t)
    \/ DidOpenCheck(t)
    \/ DidOpenSend(t)
    \/ \E v \in Views, point \in Points : textdocument_hover(t, v, point)
    \/ SendRequestCancel(t)
    \/ SendCancelNotification(t)
    \/ SendRequestAdd(t)
    \/ SendRequestWrite(t)
    \/ FeatureReturn(t)

NextHover ==
    \/ \E t \in Threads : HoverStep(t)
    \/ \E path \in Paths, items \in SUBSET DiagnosticItems :
          PublishDiagnostics(path, items)
SpecHover == InitHover /\ [][NextHover]_vars

\* read is called on any stream, the process running
InitRead ==
    /\ InitReadySession
    /\ call \in Streams
    /\ frame = ReadFrame(PyNone)
    /\ ret = ""

NextRead == ReadLine \/ ReadLength \/ ReadBody \/ Load
SpecRead == InitRead /\ [][NextRead]_vars

\* any message is sent through a pipe and read back
InitFrame ==
    /\ InitReadySession
    /\ call = <<>>
    /\ frame \in {[ReadFrame(m) EXCEPT !.pc = "send"] : m \in RpcMessages}
    /\ ret = ""

NextFrame == SendMessage \/ ReadLine \/ ReadLength \/ ReadBody \/ Load
SpecFrame == InitFrame /\ [][NextFrame]_vars

\* a new manager of diagnostics.py receives any sequence of calls, with
\* files renamed between calls
InitManager ==
    /\ InitReadySession
    /\ call = <<>>
    /\ frame = [diagnostics_items_map |-> <<>>, active_view |-> "",
                status |-> [v \in Views |-> <<>>]]
    /\ ret = None

NextManager ==
    \/ \E v \in Views, items \in SeverityLists : ManagerSet(v, items)
    \/ \E v \in Views : ManagerRemove(v)
    \/ \E v \in Views : ManagerSetActiveView(v)
    \/ \E v \in Views, p \in Paths : Retarget(v, p)
SpecManager == InitManager /\ [][NextManager]_vars

\* every view is registered with some file, nothing is published yet
InitWorkspace ==
    /\ InitReadySession
    /\ call = <<>>
    /\ frame \in {[documents |-> d, diagnostics |-> <<>>,
                    document_lock |-> "", diagnostic_lock |-> "",
                    pc |-> [t \in WsThreads |-> "idle"],
                    local |-> [t \in WsThreads |-> NoWsLocal],
                    panel |-> {}] : d \in [Views -> Paths]}
    /\ ret = None

WsIdle == \A t \in WsThreads : frame.pc[t] = "idle"

PublishStep ==
    \/ PublishWith
    \/ PublishBuild
    \/ PublishDocuments
    \/ PublishPanel

CloseStep(t) ==
    \/ CloseRemove(t)
    \/ CloseOthers(t)
    \/ CloseLockDocuments(t)
    \/ ClosePrune(t)
    \/ CloseBuild(t)
    \/ ClosePanel(t)

\* the read loop publishing while other threads close views
NextWorkspace ==
    \/ \E path \in Paths, items \in PublishedItems : PublishSet(path, items)
    \/ PublishStep
    \/ \E t \in Threads, v \in Views : CloseGet(t, v)
    \/ \E t \in Threads : CloseStep(t)
SpecWorkspace == InitWorkspace /\ [][NextWorkspace]_vars

\* the same calls, each started when no other is in progress
NextWorkspaceSeq ==
    \/ WsIdle /\ \E path \in Paths, items \in PublishedItems :
                     PublishSet(path, items)
    \/ PublishStep
    \/ WsIdle /\ \E t \in Threads, v \in Views : CloseGet(t, v)
    \/ \E t \in Threads : CloseStep(t)
SpecWorkspaceSeq == InitWorkspace /\ [][NextWorkspaceSeq]_vars

\* the command is loaded, nothing was invoked
InitSetEnvironment ==
    /\ InitReadySession
    /\ call = 0
    /\ frame = [is_busy |-> FALSE, pc |-> [i \in Runs |-> "none"],
                manager |-> [i \in Runs |-> ""]]
    /\ ret = None

NextSetEnvironment ==
    \/ Run
    \/ \E i \in Runs : RunTaskBusy(i)
    \/ \E i \in Runs : RunTaskShow(i)
    \/ \E i \in Runs, index \in {0 - 1, 0} : OnSelect(i, index)
    \/ \E i \in Runs : SaveSettings(i)
SpecSetEnvironment == InitSetEnvironment /\ [][NextSetEnvironment]_vars

\* the command with a scan that can fail; every started thread runs on
\* and the user answers every selector
RunTaskStep(i) ==
    \/ RunTaskBusy(i)
    \/ RunTaskShow(i)
    \/ RunTaskRaise(i)
    \/ \E index \in {0 - 1, 0} : OnSelect(i, index)
    \/ SaveSettings(i)

NextSetEnvironmentLive == Run \/ \E i \in Runs : RunTaskStep(i)
SpecSetEnvironmentLive ==
    /\ InitSetEnvironment
    /\ [][NextSetEnvironmentLive]_vars
    /\ \A i \in Runs : WF_vars(RunTaskStep(i))

\* scan is called on any disk
InitScan ==
    /\ InitReadySession
    /\ call \in Disks
    /\ frame = [pc |-> "scan", managers |-> <<>>]
    /\ ret = <<>>

NextScan == ScanYield \/ ScanStop
SpecScan == InitScan /\ [][NextScan]_vars

\* the read loop of a running client
InitListen ==
    /\ InitReadySession
    /\ call = None
    /\ frame = [pc |-> "read", message |-> "", dispatched |-> <<>>]
    /\ ret = ""

NextListen ==
    \/ \E kind \in MessageKinds : ListenMessage(kind)
    \/ \E raised \in ReadErrors : ListenRaise(raised)
    \/ \E fault \in Faults : HandleMessage(fault)
SpecListen == InitListen /\ [][NextListen]_vars

\* one server lifetime: on_activated_async starts the server and sends
\* `initialize` while a task thread calls textdocument_didopen at any
\* moment; the threads of the program keep running
InitOpenWait ==
    /\ methods_map = <<>>
    /\ canceled_requests = {}
    /\ request_count = 0
    /\ issued = <<>>
    /\ handled = <<>>
    /\ wire = <<>>
    /\ process = None
    /\ run_event = FALSE
    /\ spawned = 0
    /\ listeners = <<>>
    /\ answered = {}
    /\ is_initializing = FALSE
    /\ is_initialized = FALSE
    /\ initialize_event = FALSE
    /\ start_log = <<>>
    /\ ids_issued = <<>>
    /\ InitFeat
    /\ InitDocs
    /\ InitAux
    /\ call = [view |-> "", initialized |-> FALSE]
    /\ frame = None
    /\ ret = None

OpenWaitStep(t) ==
    \/ \E v \in Views : DidOpenWait(t, v, FALSE)
    \/ DidOpenProceed(t)
    \/ DidOpenGet(t)
    \/ DidCloseGet(t)
    \/ DidCloseRemove(t)
    \/ DidCloseCheck(t)
    \/ DidCloseSend(t)
    \/ DidOpenAdd(t)
    \/ DidOpenCheck(t)
    \/ DidOpenSend(t)

\* on_activated_async and the read loop in one lifetime: the process is
\* never killed, so no read meets EOF, and no earlier `initialize` is
\* pending when send_request looks for a Request to cancel
HandshakeStep(t) ==
    \/ ActivatedCheck(t)
    \/ StartServer(t)
    \/ InitializeCall(t)
    \/ SendRequestCancel(t)
    \/ SendRequestAdd(t)
    \/ SendRequestWrite(t)
    \/ InitializeReturn(t)
    \/ \E l \in 1..MaxSpawns :
          \/ ListenRead(l)
          \/ \E id \in 1..MaxRequests, o \in {"result", "error"} :
                ListenResponse(l, id, o)

NextOpenWait ==
    \/ HandshakeStep("t1")
    \/ OpenWaitStep("t2")
    \/ (\E v \in Views, p \in Paths : Retarget(v, p))
SpecOpenWait ==
    InitOpenWait /\ [][NextOpenWait]_vars /\ WF_vars(OpenWaitStep("t2"))

\* a thread sends messages while the server is terminated and started
\* again by start_server
InitWrite ==
    /\ InitReadySession
    /\ call = None
    /\ frame = [pc |-> "idle", n |-> 0, thread |-> "", began |-> None,
                written |-> None]
    /\ ret = None

NextWrite ==
    \/ StartStep("t1")
    \/ Terminate
    \/ WriteWait("t2")
    \/ WriteStdin("t2")
SpecWrite == InitWrite /\ [][NextWrite]_vars

\* a new BufferedDocument; the read loop shows lists while the editor
\* pops them
InitSlot ==
    /\ InitReadySession
    /\ call = None
    /\ frame = [pc |-> "idle", queue |-> <<>>, items |-> <<>>, n |-> 0,
                pops |-> 0, latest |-> <<>>]
    /\ ret = <<>>

ShowStep ==
    \/ \E items \in CompletionLists : ShowCompletion(items)
    \/ ShowGet
    \/ ShowPut
    \/ ShowTrigger

NextSlot == ShowStep \/ PopCompletion
SpecSlot == InitSlot /\ [][NextSlot]_vars

\* show_completion and pop_completion called one after the other
NextSlotSeq == ShowStep \/ (frame.pc = "idle" /\ PopCompletion)
SpecSlotSeq == InitSlot /\ [][NextSlotSeq]_vars

\* the editor queries completions while the server answers
NoQuery == [pending |-> FALSE, changed |-> FALSE, registered |-> FALSE,
            returned |-> <<>>, requested |-> FALSE]

InitQuery ==
    /\ InitReadySession
    /\ call = None
    /\ frame = [cached |-> <<>>, prev_completion_point |-> 0, n |-> 0,
                requests |-> 0, responses |-> 0]
    /\ ret = NoQuery

NextQuery ==
    \/ \E point \in Points, in_word \in BOOLEAN, registered \in BOOLEAN :
          QueryCompletions(point, in_word, registered)
    \/ \E items \in CompletionLists : CompletionResponse(items)
SpecQuery == InitQuery /\ [][NextQuery]_vars

\* the command runs with any selection and any list of changes
InitRelocate ==
    /\ InitReadySession
    /\ call \in [selection : [a : Offsets, b : Offsets], changes : ChangeLists]
    /\ frame = [pc |-> "relocate", i |-> 1, temp_selection |-> call.selection]
    /\ ret = call.selection

NextRelocate == RelocateChange \/ RelocateReturn
SpecRelocate == InitRelocate /\ [][NextRelocate]_vars

\* a transport as constructed; it is run and terminated in any order
\* while its process may exit on its own
InitTransport ==
    /\ methods_map = <<>>
    /\ canceled_requests = {}
    /\ request_count = 0
    /\ issued = <<>>
    /\ handled = <<>>
    /\ wire = <<>>
    /\ process = None
    /\ run_event = FALSE
    /\ spawned = 0
    /\ listeners = <<>>
    /\ answered = {}
    /\ is_initializing = FALSE
    /\ is_initialized = FALSE
    /\ initialize_event = FALSE
    /\ start_log = <<>>
    /\ ids_issued = <<>>
    /\ InitFeat
    /\ InitDocs
    /\ InitAux
    /\ call = None
    /\ frame = [log |-> <<>>]
    /\ ret = ""

NextTransport ==
    \/ TransportRun
    \/ \E path \in {"p1", "p2"} : TransportWrite(path)
    \/ TerminateServer
    \/ ServerExit
SpecTransport == InitTransport /\ [][NextTransport]_vars

\* the read loop serving Requests and notifications of the server while
\* one thread issues feature requests
NextServe == ThreadStep("t1") \/ ServerCallStep
SpecServe == InitReady /\ [][NextServe]_vars

\* ------------------------------------------------------------ properties
IsCancelRequest(m) == m.kind = "notification" /\ m.method = "$/cancelRequest"
IsResponse(m) == m.kind = "response"
CancelsSince(k) == {i \in (k + 1)..Len(wire) : IsCancelRequest(wire[i])}
HandledIds == {handled[k].id : k \in 1..Len(handled)}

\* C1: a send_request that finds an earlier request of its method pending
\* writes exactly one $/cancelRequest, carrying that request's id, before
\* its own Request; one that finds none pending writes no $/cancelRequest
\* (one issuing thread, the read loop running beside it)
C1_CancelBeforeRequest ==
    \A t \in Threads : pc[t] = "done" =>
        LET cs == CancelsSince(loc[t].mark)
            rq == {i \in (loc[t].mark + 1)..Len(wire) :
                       wire[i] = Frame(process,
                                       Request(loc[t].req_id, loc[t].method))}
        IN  /\ Cardinality(rq) = 1
            /\ IF loc[t].pend # {}
               THEN /\ Cardinality(cs) = 1
                    /\ \A i \in cs : /\ wire[i].id \in loc[t].pend
                                     /\ \A j \in rq : i < j
               ELSE cs = {}

C1_Witness ==
    \E t \in Threads : /\ pc[t] = "done"
                       /\ loc[t].pend # {}
                       /\ CancelsSince(loc[t].mark) # {}

\* C2: every handler invocation for a Response is for an id that was
\* issued, was never cancelled and has not been answered before
C2_HandlerOnlyForPending ==
    /\ \A k \in 1..Len(handled) :
          /\ handled[k].id \in DOMAIN issued
          /\ handled[k].id \notin canceled_ever
          /\ handled[k].method = issued[handled[k].id].method
    /\ \A j, k \in 1..Len(handled) : j # k => handled[j].id # handled[k].id
    /\ loop_pc = "handle" =>
          /\ loop_msg.id \in DOMAIN issued
          /\ loop_msg.id \notin canceled_ever
          /\ loop_msg.id \notin HandledIds

C2_Witness ==
    /\ loop_pc = "read"
    /\ \E i \in canceled_ever : i \notin canceled_requests /\ i \notin HandledIds
    /\ Len(handled) > 0

\* C3: the pending table never holds two ids for the same method
C3_OnePendingPerMethod ==
    \A i, j \in DOMAIN methods_map :
        i # j => methods_map[i] # methods_map[j]

\* C4: when a feature response handler is about to run for the Response of
\* request i, the action target of its method is the document that issued i
C4_TargetIsIssuer ==
    (loop_pc = "handle" /\ loop_msg.method \in Methods
        /\ loop_msg.outcome = "result")
    => action_target[loop_msg.method] = issued[loop_msg.id].doc

DocCount(method, path) ==
    Cardinality({i \in 1..Len(wire) : wire[i].method = method
                                       /\ wire[i].payload = path})

DocsIdle == \A t \in Threads : dpc[t] = "idle"

\* C8: after any sequential series of didopen, didopen(reload) and
\* didclose calls, renamed views included, the didOpen sent for a path
\* exceed the didClose sent for it by one when some registered Document
\* has that path, and by zero otherwise
C8_OpenCloseBalance ==
    DocsIdle =>
        \A p \in Paths :
            DocCount("textDocument/didOpen", p)
              - DocCount("textDocument/didClose", p)
            = IF get_documents(documents, p) # {} THEN 1 ELSE 0

\* C9: when two threads have opened two views of one unopened path
\* concurrently, exactly one didOpen was sent for the path and both views
\* are registered
C9_OneOpenPerPath ==
    (/\ DocsIdle
     /\ doc_calls = 2
     /\ \A p \in Paths : DocCount("textDocument/didClose", p) = 0
     /\ DOMAIN documents = Views
     /\ documents["v1"] = documents["v2"])
    => DocCount("textDocument/didOpen", documents["v1"]) = 1

\* --------------------------------------------------- lifecycle properties
IsTextDocument(m) ==
    m.method \in Methods \cup {"textDocument/didOpen", "textDocument/didClose"}

\* C5: a textDocument/* message is written to a server process only after
\* the `initialized` notification, sent on a successful `initialize`
\* response, has been written to that same process
C5_TextDocumentAfterInitialized ==
    \A i \in 1..Len(wire) :
        IsTextDocument(wire[i]) =>
            \E j \in 1..(i - 1) :
                /\ wire[j].proc = wire[i].proc
                /\ wire[j].method = "initialized"

InitializeState(initializing, initialized) ==
    IF ~initializing /\ ~initialized THEN "NotInitialized"
    ELSE IF initializing /\ ~initialized THEN "Initializing"
    ELSE IF ~initializing /\ initialized THEN "Initialized"
    ELSE "Other"

\* C6: the initialize state changes only from NotInitialized to
\* Initializing, from Initializing to Initialized and from any state to
\* NotInitialized, and initialize(view) starts an `initialize` request
\* only in state NotInitialized
C6_InitializeTransitions ==
    [][LET old == InitializeState(is_initializing, is_initialized)
           new == InitializeState(is_initializing', is_initialized')
       IN  /\ \/ new = old
              \/ old = "NotInitialized" /\ new = "Initializing"
              \/ old = "Initializing" /\ new = "Initialized"
              \/ new = "NotInitialized"
           /\ \A t \in Threads :
                  (pc[t] = "initialize" /\ pc'[t] = "cancel")
                      => old = "NotInitialized"]_vars

\* C10: at most one read loop thread reads the stdout of the running
\* process, and no read loop reads from a process spawned after the one
\* it was started for
C10_OneReadLoop ==
    /\ Cardinality({l \in 1..Len(listeners) :
           listeners[l].pc = "reading" /\ listeners[l].proc = process}) <= 1
    /\ \A l \in 1..Len(listeners) :
           listeners[l].pc = "reading" => listeners[l].proc = listeners[l].born

\* ---------------------------------------------------- start_server, lock
StartCycle == <<"reset", "run", "listen">>
InStart(t) == pc[t] \in {"s_running", "s_reset", "s_run", "s_listen", "s_release"}

\* C11: for every interleaving of concurrent start_server calls, a process
\* is spawned only while none is running, every spawn comes right after a
\* reset_state and right before the start of one read loop, and a call
\* that finds the server running changes nothing
C11_StartServerOnce ==
    /\ [](/\ \A i \in 1..Len(start_log) :
                start_log[i] = StartCycle[((i - 1) % 3) + 1]
          /\ Cardinality({t \in Threads : InStart(t)}) <= 1
          /\ \A t \in Threads : InStart(t) => run_server_lock = t)
    /\ [][/\ spawned' # spawned => process = None
          /\ \A t \in Threads :
                 (pc[t] = "s_running" /\ process # None /\ pc'[t] # pc[t])
                     => /\ pc'[t] = "s_release"
                        /\ UNCHANGED <<start_log, ioVars, imVars, documents,
                                       action_target, diagVars>>]_vars

C11_Witness ==
    \E t, u \in Threads :
        /\ pc[t] = "s_acquire"
        /\ run_server_lock = u
        /\ pc[u] = "s_listen"
        /\ spawned = MaxSpawns

\* ------------------------------------------------- terminate, request ids
\* C12: when PyserverClient.terminate() returns the process is gone and
\* the session is reset: initialize state NotInitialized, no registered
\* document, no action target, no stored diagnostics
C12_TerminateResets ==
    [][(run_event /\ ~run_event') =>
          /\ process' = None
          /\ ~is_initializing' /\ ~is_initialized'
          /\ documents' = <<>>
          /\ \A m \in Methods : action_target'[m] = NoDocument
          /\ diagnostics' = <<>>]_vars

\* C13: the ids handed out by one Client are strictly increasing, hence
\* never used twice, also across terminate_server()
C13_IdsNeverReused ==
    \A i, j \in 1..Len(ids_issued) : i < j => ids_issued[i] < ids_issued[j]

\* the ids popped by a matching Response
PoppedIds ==
    HandledIds \cup (IF loop_pc = "handle" THEN {loop_msg.id} ELSE {})

\* C14: an id leaves the pending table once, either popped by a matching
\* Response or moved into the cancelled set by cancel(), never both, and
\* it is never back in the table afterwards; no id is at once pending and
\* in the cancelled set
C14_RemovedOnce ==
    /\ DOMAIN methods_map \cap canceled_requests = {}
    /\ canceled_requests \subseteq canceled_ever
    /\ canceled_ever \cap PoppedIds = {}
    /\ DOMAIN methods_map \cap (canceled_ever \cup PoppedIds) = {}
    /\ DOMAIN issued = DOMAIN methods_map \cup canceled_ever \cup PoppedIds
    /\ \A j, k \in 1..Len(handled) : j # k => handled[j].id # handled[k].id

C14_Witness ==
    /\ canceled_ever # {}
    /\ \E i \in HandledIds : i > 1

\* ---------------------------------------------------------- applyEdit
\* the disk after the entries of es were applied to fs, one after another
RECURSIVE Effects(_, _)
Effects(fs, es) ==
    IF es = <<>> THEN fs
    ELSE LET e == es[1]
             r == IF e.kind # "" THEN _apply_resource_changes(fs, e)
                  ELSE _apply_textedit_changes(fs, e)
         IN  Effects(r.files, Tail(es))

\* entry e raises on the disk fs
Raises(fs, e) ==
    IF e.kind # "" THEN _apply_resource_changes(fs, e).raised
    ELSE _apply_textedit_changes(fs, e).raised

\* C15: an edit reported as applied has had every entry of
\* documentChanges executed, in list order, those after a resource
\* operation included
C15_EveryEntryProcessed ==
    ret = "applied" => frame.log = call

\* C16: when entry k raises the handler answers {applied: false}, the
\* exception stays inside, and the entries before k stay applied; the
\* answer is {applied: true} only when no executed entry raised
C16_NoRollback ==
    /\ ret \in {"", "applied", "not applied"}
    /\ frame.log = SubSeq(call, 1, Len(frame.log))
    /\ frame.files = Effects(InitFiles, frame.log)
    /\ ret = "not applied" =>
           /\ Len(frame.log) < Len(call)
           /\ Raises(frame.files, call[Len(frame.log) + 1])
    /\ ret = "applied" =>
           \A j \in 1..Len(frame.log) :
               ~Raises(Effects(InitFiles, SubSeq(call, 1, j - 1)), call[j])

C16_Witness ==
    /\ ret = "not applied"
    /\ Len(frame.log) >= 1
    /\ frame.files # InitFiles

\* ------------------------------------------------------- apply_changes
\* position p is not after position q
PosLE(p, q) == p[1] < q[1] \/ (p[1] = q[1] /\ p[2] <= q[2])

\* each change ends where or before the next one starts
Ascending(changes) ==
    \A i, j \in 1..Len(changes) :
        i < j => PosLE(changes[i].end, changes[j].start)

\* the offset of text that a server reports as position p
OffsetOf(text, p) == CHOOSE o \in 0..Len(text) : ToPosition(text, o) = p

\* every range of an ascending list replaced in the original text, the
\* rightmost first so that no offset moves before it is used
RECURSIVE ReplaceAll(_, _, _)
ReplaceAll(original, text, changes) ==
    IF changes = <<>> THEN text
    ELSE LET c == changes[Len(changes)]
         IN  ReplaceAll(original,
                        SubSeq(text, 1, OffsetOf(original, c.start))
                            \o c.text
                            \o SubSeq(text, OffsetOf(original, c.end) + 1,
                                      Len(text)),
                        SubSeq(changes, 1, Len(changes) - 1))

\* the arrangements of a list of changes
Arrangements(changes) ==
    {[i \in DOMAIN changes |-> changes[p[i]]] :
        p \in {q \in [DOMAIN changes -> DOMAIN changes] :
                  \A i, j \in DOMAIN changes : i # j => q[i] # q[j]}}

C18_AnyOrder ==
    frame.pc = "done"
        => \E cs \in Arrangements(call.changes) :
               /\ Ascending(cs)
               /\ ret = ReplaceAll(call.source, call.source, cs)

\* ----------------------------------------------------------------- hover
\* a diagnostic stored for the view contains the point
StoredCovers(view, point) ==
    /\ view \in DOMAIN diagnostics
    /\ \E d \in diagnostics[view] : contains(d.region, point)

\* C19: a hover call for a registered document at a point that a stored
\* diagnostic covers shows the message in that view, writes nothing to
\* the transport, enters no send_request, and leaves the pending table
\* and the hover action target as they were
C19_DiagnosticHoverSendsNothing ==
    [][(/\ call'.n # call.n
        /\ call'.view \in DOMAIN documents
        /\ StoredCovers(call'.view, call'.point))
           => /\ popup' # <<>>
              /\ popup'[1] = call'.view
              /\ wire' = wire
              /\ pc' = pc
              /\ methods_map' = methods_map
              /\ canceled_requests' = canceled_requests
              /\ action_target' = action_target]_vars

\* ------------------------------------------------------------------ read
\* the stream starts with a header block of n lines: at least one line,
\* then the separator
HeaderBlock(stream, n) ==
    /\ n >= 1
    /\ Len(stream) > n
    /\ stream[n + 1] = Separator
    /\ \A i \in 1..n : stream[i] # Separator

\* C20: when stdout holds a header block in which no line is a
\* Content-Length line, read raises HeaderError and stdout is left just
\* past the separator, with every byte of the body unread
C20_HeaderErrorReadsNoBody ==
    \A n \in 1..MaxHeaderLines :
        (/\ frame.pc = "done"
         /\ HeaderBlock(call, n)
         /\ \A i \in 1..n : call[i].name # "Content-Length")
            => /\ ret = "HeaderError"
               /\ frame.pos = n + 2
               /\ frame.received_length = 0

C20_Witness ==
    /\ frame.pc = "done"
    /\ ret = "HeaderError"
    /\ HeaderBlock(call, MaxHeaderLines)
    /\ \A i \in 1..MaxHeaderLines : call[i].name # "Content-Length"
    /\ Len(call) = MaxHeaderLines + 1 + MaxBody
    /\ frame.pos = MaxHeaderLines + 2

\* ----------------------------------------------------------------- frame
\* the bytes of the frame in the pipe after its separator
FrameBody == [i \in 1..(Len(call) - 2) |-> call[i + 2].byte]

ActiveFileItems ==
    IF file_name[frame.active_view] \in DOMAIN frame.diagnostics_items_map
    THEN frame.diagnostics_items_map[file_name[frame.active_view]]
    ELSE <<>>

\* C22: the status of the active view shows the number of stored
\* severity-1 items of its file and the number of its other items, and
\* shows nothing when the file has no stored item
C22_StatusMatchesStore ==
    frame.active_view # "" =>
        frame.status[frame.active_view] =
            IF ActiveFileItems = <<>> THEN <<>>
            ELSE <<Cardinality({i \in DOMAIN ActiveFileItems :
                                   ActiveFileItems[i] = 1}),
                   Cardinality({i \in DOMAIN ActiveFileItems :
                                   ActiveFileItems[i] # 1})>>

\* ------------------------------------------------------- aggregate report
\* the files that registered documents show
DocumentFiles(docs) == {docs[v] : v \in DOMAIN docs}

C29_NoLockCycle ==
    ~ \E t \in Threads :
          /\ frame.pc[ReadLoop] = "p_documents"
          /\ frame.diagnostic_lock = ReadLoop
          /\ frame.pc[t] = "k_diagnostic_lock"
          /\ frame.document_lock = t

\* --------------------------------------------------------- Set-Environment
\* C24: at most one invocation of the command is between the start of
\* its scan and the end of its save step
C24_OneInvocationInFlight ==
    Cardinality({i \in Runs : frame.pc[i] \in {"scan", "panel", "save"}}) <= 1

\* ------------------------------------------------------------------ scan
KindRank(kind) == IF kind = "Global" THEN 1 ELSE IF kind = "Conda" THEN 2 ELSE 3

\* the envs of a conda folder that hold a python, in glob order
PythonEnvs(envs) == SelectSeq(envs, LAMBDA e : e # "N")

\* C25: the candidates come out with every Global before every Conda
\* and every Conda before every Venv; each conda install's own candidate
\* is followed at once by the candidates of its envs; Venv candidates
\* come only with a workdir; one global, one install with envs A and B
\* and one venv folder give Global, Conda, Conda A, Conda B, Venv
C25_ScanOrder ==
    frame.pc = "done" =>
        /\ \A i, j \in 1..Len(ret) :
               i < j => KindRank(ret[i].kind) <= KindRank(ret[j].kind)
        /\ \A r \in 1..Len(call.conda) :
               IF call.conda[r].python
               THEN \E p \in 1..Len(ret) :
                       /\ ret[p] = Candidate("Conda", r, "")
                       /\ LET es == PythonEnvs(call.conda[r].envs)
                          IN  /\ p + Len(es) <= Len(ret)
                              /\ \A k \in 1..Len(es) :
                                     ret[p + k] = Candidate("Conda", r, es[k])
               ELSE \A p \in 1..Len(ret) :
                       ~(ret[p].kind = "Conda" /\ ret[p].root = r)
        /\ Cardinality({p \in 1..Len(ret) : ret[p].kind = "Conda"}) =
               Cardinality({<<r, k>> \in (1..Len(call.conda)) \X (0..2) :
                   /\ call.conda[r].python
                   /\ k <= Len(PythonEnvs(call.conda[r].envs))})
        /\ Cardinality({p \in 1..Len(ret) : ret[p].kind = "Global"}) =
               Len(call.path)
        /\ (\E p \in 1..Len(ret) : ret[p].kind = "Venv") => call.workdir
        /\ (/\ call.path = <<"usr">>
            /\ call.conda = <<[python |-> TRUE, envs |-> <<"A", "B">>]>>
            /\ call.workdir
            /\ call.folders = <<"venv">>)
               => ret = <<Candidate("Global", 0, "usr"), Candidate("Conda", 1, ""),
                          Candidate("Conda", 1, "A"), Candidate("Conda", 1, "B"),
                          Candidate("Venv", 0, "venv")>>

C25_Witness ==
    /\ frame.pc = "done"
    /\ call.path = <<"usr">>
    /\ call.workdir
    /\ Len(call.conda) = MaxInstalls
    /\ \A r \in 1..Len(call.conda) :
           call.conda[r] = [python |-> TRUE, envs |-> <<"A", "B">>]
    /\ ret[Len(ret)].kind = "Venv"

\* ----------------------------------------------------------- _listen_task
\* C26: the loop ends only from a failed read: on EOFError nothing else
\* changes, on any other exception the transport is terminated; whatever
\* is raised while a message is dispatched, the loop is back at its read
C26_LoopEndsOnReadFailureOnly ==
    [][/\ (frame.pc # "ended" /\ frame'.pc = "ended") =>
              /\ frame.pc = "read"
              /\ ret' \in ReadErrors
              /\ ret' = "EOFError" =>
                     UNCHANGED <<process, run_event, wire, rmVars>>
              /\ ret' # "EOFError" => (process' = None /\ ~run_event')
       /\ frame.pc = "handle" =>
              (frame'.pc = "read" /\ Len(frame'.dispatched) = Len(frame.dispatched) + 1)
      ]_vars

\* a message is dispatched after the dispatch of the one before it raised
C26_Witness ==
    /\ Len(frame.dispatched) = 2
    /\ frame.dispatched[1].raised # ""
    /\ frame.pc = "read"

\* ------------------------------------------------- initialize with error
\* C27: when the Response to `initialize` that the read loop handles
\* carries an error, the session is left NotInitialized, not Initializing
C27_ErrorLeavesNotInitialized ==
    [][(/\ Len(handled') = Len(handled) + 1
        /\ handled'[Len(handled')].method = "initialize"
        /\ ~is_initialized')
           => ~is_initializing']_vars

\* ------------------------------------------------------ wait_initialized
\* the didOpen for the Document of the view of the call is in the pipe,
\* behind `initialized`
OpenedAfterInitialized ==
    /\ call.view \in DOMAIN documents
    /\ \E i \in 1..Len(wire) :
           /\ wire[i].method = "textDocument/didOpen"
           /\ wire[i].payload = documents[call.view]
           /\ \E j \in 1..(i - 1) : wire[j].method = "initialized"

\* C28: a textdocument_didopen called before the session is Initialized
\* stays in its wait while the event is not set, and once the session is
\* Initialized the call goes through: the Document of its view is
\* registered and a didOpen for a first Document is written after
\* `initialized`
C28_WaitingOpenProceeds ==
    /\ [][(dpc["t2"] = "open_wait" /\ ~initialize_event)
              => (dpc'["t2"] = "open_wait" /\ documents' = documents)]_vars
    /\ [][(dpc["t2"] = "open_send" /\ dpc'["t2"] = "idle")
              => OpenedAfterInitialized']_vars
    /\ (dpc["t2"] = "open_wait" /\ ~call.initialized /\ is_initialized)
           ~> (dpc["t2"] = "idle" /\ OpenedAfterInitialized)

\* a call that waited has registered its Document and written didOpen
C28_Witness ==
    /\ doc_calls = 1
    /\ ~call.initialized
    /\ dpc["t2"] = "idle"
    /\ OpenedAfterInitialized

\* -------------------------------------------------------- StandardIO.write
\* C30: a message whose write began while a process was running is not
\* written to the stdin of a process spawned after that one was
\* terminated
C30_NoWriteToLaterProcess ==
    (frame.pc = "done" /\ frame.began # None /\ frame.written # None)
        => frame.written = frame.began

\* ------------------------------------------------ requests across spawns
\* C31: whenever a server process is spawned the pending-request table
\* and the cancelled set are empty
C31_SpawnWithEmptyRequestManager ==
    [][spawned' = spawned + 1
          => (methods_map' = <<>> /\ canceled_requests' = {})]_vars

\* --------------------------------------------------- didopen, unchanged
\* the view of the call has a Document with the path the view shows and
\* the call is no reload
OpenOfUnchanged(t) ==
    /\ dpc[t] = "open_get"
    /\ ~dloc[t].reload
    /\ dloc[t].view \in DOMAIN documents
    /\ documents[dloc[t].view] = dloc[t].file_name

\* C32: textdocument_didopen without reload for a view whose Document has
\* the same file path returns with nothing written and the registry as
\* it was
C32_UnchangedOpenIsNoOp ==
    [][OpenOfUnchanged("t1")
          => (dpc'["t1"] = "idle" /\ wire' = wire /\ documents' = documents)]_vars

C32_Witness == OpenOfUnchanged("t1") /\ doc_calls >= 2

\* ------------------------------------------------------ completion slot
\* C38: the Document holds at most one list, and pop_completion returns
\* the list of the latest show_completion when no pop has taken it, no
\* items otherwise
C38_OnePendingList ==
    [][/\ Len(frame'.queue) <= 1
       /\ frame'.pops = frame.pops + 1 =>
              ret' = IF frame.latest # <<>> THEN frame.latest[1] ELSE <<>>
      ]_vars

\* a pop after two shows, and a pop after a pop
C38_Witness ==
    /\ frame.n = 2
    /\ frame.pops = 2
    /\ frame.pc = "idle"
    /\ frame.queue = <<>>
    /\ frame.items = <<"b">>

\* C39: show_completion is never inside its blocking get on an empty
\* queue, where only another show_completion could release it
C39_ShowNeverBlocks == ~(frame.pc = "get" /\ frame.queue = <<>>)

\* ---------------------------------------------------- on_query_completions
\* C33: a query for a view with a Document returns the pending list when
\* there is one and the context is unchanged, and sends a request
\* otherwise, as it does when a list is pending and the context changed
C33_ListOrFreshRequest ==
    [][(frame'.n = frame.n + 1 /\ ret'.registered)
          => IF ret'.pending /\ ~ret'.changed
             THEN \/ ret'.returned = frame.cached
                  \/ (frame.cached[1] = <<>> /\ ret'.returned = <<>>)
             ELSE ret'.returned = <<>> /\ ret'.requested]_vars

\* ------------------------------------------------------ relocate_selection
\* the sum of the cursor moves of the changes that begin before point
RECURSIVE ShiftBefore(_, _)
ShiftBefore(changes, point) ==
    IF changes = <<>> THEN 0
    ELSE (IF begin(changes[1]) < point THEN changes[1].cursor_move ELSE 0)
             + ShiftBefore(Tail(changes), point)

\* C34: the selection ends up moved by the sum of the cursor moves of the
\* changes whose region begins before the begin the selection had
C34_SelectionMovedBySum ==
    frame.pc = "done" =>
        LET shift == ShiftBefore(call.changes, begin(call.selection))
        IN  ret = [a |-> call.selection.a + shift,
                   b |-> call.selection.b + shift]

\* ---------------------------------------------------------- end of stream
\* C35: read raises EOFError only when stdout has been read to its end
\* and is closed; a blank line where a header is expected, with more of
\* the stream to come, is no end of stream
C35_EofOnlyWhenClosed ==
    (frame.pc = "done" /\ ret = "EOFError") => frame.pos > Len(call)

\* --------------------------------------------------------- busy flag
\* C36: every invocation that has set is_busy comes to the end of its
\* save step, where it clears the flag
C36_BusyEventuallyCleared ==
    \A i \in Runs : (frame.pc[i] = "scan") ~> (frame.pc[i] = "saved")

\* --------------------------------------------------- StandardIO.terminate
\* C37: terminate, called before run, after run or after a terminate,
\* raises nothing and leaves no process and the spawn event cleared, and
\* a terminate that follows a terminate changes neither
C37_TerminateIdempotent ==
    [][Len(frame'.log) = Len(frame.log) + 1
          /\ frame'.log[Len(frame'.log)] = "terminate"
          => /\ ret' = ""
             /\ process' = None
             /\ ~run_event'
             /\ (frame.log # <<>> /\ frame.log[Len(frame.log)] = "terminate")
                    => UNCHANGED <<process, run_event>>]_vars

\* terminate before run, after run, and twice in a row
C37_Witness ==
    /\ Len(frame.log) >= 4
    /\ SubSeq(frame.log, 1, 4) = <<"terminate", "run", "terminate", "terminate">>
    /\ ret = ""

\* ------------------------------------------------- documents by file name
\* C40: for every path, get_document_by_name returns a document exactly
\* when get_documents of the path is not empty, and the document is one
\* of them, views renamed after they were registered included
C40_ByNameAgreesWithDocuments ==
    \A path \in Paths, order \in InsertionOrders(DOMAIN documents) :
        LET document == get_document_by_name(order, file_name, path)
        IN  /\ (document # NoDocument) <=> (get_documents(documents, path) # {})
            /\ (document # NoDocument) => document \in get_documents(documents, path)

====
